---------------------------- MODULE Spec2Model ----------------------------
(***************************************************************************)
(* A model of dothuntcli's availability-resolution engine:                 *)
(*   internal/domain       Normalize                                       *)
(*   internal/rdap         Client.LookupDomain, Client.lookupOne,          *)
(*                         Client.getBootstrap                             *)
(*   internal/whois        Client.LookupDomain                             *)
(*   internal/availability Checker.CheckDomains, Checker.checkOne          *)
(*                                                                         *)
(* Go strings that the code inspects byte by byte (inputs, domains, base   *)
(* URLs) are sequences of one-character strings; Str turns them into a     *)
(* TLA+ string.  Strings the code only copies, compares with "" or         *)
(* concatenates (reasons, error messages, details) are TLA+ strings.       *)
(* A Go nil error is the value Nil; a non-nil error is its message.        *)
(***************************************************************************)
EXTENDS Integers, Sequences, FiniteSets, TLC

\* ------------------------------------------------------------------ bounds

\* Longest input list handed to CheckDomains by Spec (one worker, every
\* network outcome).
MaxInputs == 1

\* Longest input list and largest pool handed to CheckDomains by SpecPool
\* (several workers, a fixed network outcome per run).
PoolMaxInputs == 2
MaxWorkers == 2

\* Longest URL list of a service and longest service list of a bootstrap
\* document handed to parseBootstrap.
\* Goroutines in Client.query at once, and the last time the clock reaches.
MaxCallers == 2
MaxNow == 4000

\* The MaxLabels option of the label generator when it is set: a small and a
\* large one.
MaxLabels == 3
ManyLabels == 100

\* Results handed to enrichWithRegistrar.
MaxResults == 2

\* Most domains a command line hands to CheckDomains.
MaxDomains == 2

\* The calls of CheckDomain the goroutines make together, and the time an
\* answer can take.
MaxChecks == 3
Latency == 300

MaxURLs == 2
MaxServices == 2

\* ----------------------------------------------------------- byte strings

Nil == "<nil>"

RECURSIVE Str(_)
Str(s) ==
    IF s = <<>> THEN ""
    ELSE IF Len(s) = 1 THEN s[1]
    ELSE Str(SubSeq(s, 1, Len(s) \div 2)) \o Str(SubSeq(s, Len(s) \div 2 + 1, Len(s)))

\* fmt's %q of a string without characters that need escaping.
Quote(s) == "\"" \o Str(s) \o "\""

\* Go's s[i:j] with 0-based, half-open bounds.
Slice(s, i, j) == SubSeq(s, i + 1, j)

\* strings.IndexAny / IndexByte: 0-based index of the first byte in set, -1 if none.
IndexAny(s, set) ==
    IF \E i \in 1..Len(s) : s[i] \in set
    THEN (CHOOSE i \in 1..Len(s) : s[i] \in set /\ \A j \in 1..(i - 1) : s[j] \notin set) - 1
    ELSE -1

IndexByte(s, c) == IndexAny(s, {c})

\* strings.LastIndexByte: 0-based index of the last c, -1 if none.
LastIndexByte(s, c) ==
    IF \E i \in 1..Len(s) : s[i] = c
    THEN (CHOOSE i \in 1..Len(s) : s[i] = c /\ \A j \in (i + 1)..Len(s) : s[j] # c) - 1
    ELSE -1

HasPrefix(s, p) == Len(s) >= Len(p) /\ SubSeq(s, 1, Len(p)) = p

HasSuffix(s, p) == Len(s) >= Len(p) /\ SubSeq(s, Len(s) - Len(p) + 1, Len(s)) = p

\* strings.Index: 0-based index of the first occurrence of sub, -1 if none.
Index(s, sub) ==
    LET hits == {i \in 0..(Len(s) - Len(sub)) : Slice(s, i, i + Len(sub)) = sub}
    IN  IF hits = {} THEN -1 ELSE CHOOSE i \in hits : \A j \in hits : i <= j

Contains(s, sub) == Index(s, sub) >= 0

WhiteSpace == {" ", "\t", "\n", "\r"}

RECURSIVE TrimLeft(_, _)
TrimLeft(s, set) ==
    IF s # <<>> /\ s[1] \in set THEN TrimLeft(Tail(s), set) ELSE s

RECURSIVE TrimRight(_, _)
TrimRight(s, set) ==
    IF s # <<>> /\ s[Len(s)] \in set THEN TrimRight(SubSeq(s, 1, Len(s) - 1), set) ELSE s

TrimSpace(s) == TrimRight(TrimLeft(s, WhiteSpace), WhiteSpace)

TrimSuffix(s, p) == IF HasSuffix(s, p) THEN SubSeq(s, 1, Len(s) - Len(p)) ELSE s

Digits == {"0", "1", "2", "3", "4", "5", "6", "7", "8", "9"}

LowerLetters ==
    {"a", "b", "c", "d", "e", "f", "g", "h", "i", "j", "k", "l", "m",
     "n", "o", "p", "q", "r", "s", "t", "u", "v", "w", "x", "y", "z"}

UpperToLower ==
    [A |-> "a", B |-> "b", C |-> "c", D |-> "d", E |-> "e", F |-> "f", G |-> "g",
     H |-> "h", I |-> "i", J |-> "j", K |-> "k", L |-> "l", M |-> "m", N |-> "n",
     O |-> "o", P |-> "p", Q |-> "q", R |-> "r", S |-> "s", T |-> "t", U |-> "u",
     V |-> "v", W |-> "w", X |-> "x", Y |-> "y", Z |-> "z"]

UpperLetters == DOMAIN UpperToLower

ToLower(s) == [i \in 1..Len(s) |-> IF s[i] \in UpperLetters THEN UpperToLower[s[i]] ELSE s[i]]

\* strings.Split(s, "."): the labels of s.
RECURSIVE SplitDots(_)
SplitDots(s) ==
    LET i == IndexByte(s, ".")
    IN  IF i < 0 THEN <<s>> ELSE <<Slice(s, 0, i)>> \o SplitDots(Slice(s, i + 1, Len(s)))


\* ------------------------------------------------- internal/domain: Normalize

isAllDigits(s) == s # <<>> /\ \A i \in 1..Len(s) : s[i] \in Digits

\* net/url getScheme: [ok, scheme, rest].
getScheme(s) ==
    LET SchemeChar(i) == \/ s[i] \in LowerLetters \cup UpperLetters
                         \/ (i > 1 /\ s[i] \in Digits \cup {"+", "-", "."})
        stop == IF \E i \in 1..Len(s) : ~SchemeChar(i)
                THEN CHOOSE i \in 1..Len(s) : ~SchemeChar(i) /\ \A j \in 1..(i - 1) : SchemeChar(j)
                ELSE 0
    IN  IF stop = 0 \/ s[stop] # ":" THEN [ok |-> TRUE, scheme |-> <<>>, rest |-> s]
        ELSE IF stop = 1 THEN [ok |-> FALSE, scheme |-> <<>>, rest |-> <<>>]
        ELSE [ok |-> TRUE, scheme |-> SubSeq(s, 1, stop - 1), rest |-> SubSeq(s, stop + 1, Len(s))]

\* Bytes net/url accepts unescaped in a host name.
HostBytes ==
    LowerLetters \cup UpperLetters \cup Digits \cup
    {"-", "_", ".", "~", "!", "$", "&", "'", "(", ")", "*", "+", ",", ";", "=", ":", "[", "]", "<", ">", "\""}

\* Bytes net/url accepts in the userinfo before "@".
UserinfoBytes ==
    LowerLetters \cup UpperLetters \cup Digits \cup
    {"-", ".", "_", ":", "~", "!", "$", "&", "'", "(", ")", "*", "+", ",", ";", "=", "%", "@"}

\* net/url validOptionalPort: "" or ":" followed by digits.
validOptionalPort(p) ==
    p = <<>> \/ (p[1] = ":" /\ \A i \in 2..Len(p) : p[i] \in Digits)

\* net/url parseHost: whether host (with its optional port) is accepted.
parseHostOk(h) ==
    /\ \A i \in 1..Len(h) : h[i] \in HostBytes
    /\ IF HasPrefix(h, <<"[">>)
       THEN LET i == LastIndexByte(h, "]")
            IN  i >= 0 /\ validOptionalPort(Slice(h, i + 1, Len(h)))
       ELSE LET i == LastIndexByte(h, ":")
            IN  i < 0 \/ validOptionalPort(Slice(h, i, Len(h)))

\* net/url parseAuthority: [ok, Host] for the authority between "//" and the
\* next "/".
parseAuthority(auth) ==
    LET at   == LastIndexByte(auth, "@")
        host == IF at < 0 THEN auth ELSE Slice(auth, at + 1, Len(auth))
        user == IF at < 0 THEN <<>> ELSE Slice(auth, 0, at)
    IN  IF /\ \A i \in 1..Len(user) : user[i] \in UserinfoBytes
           /\ parseHostOk(host)
        THEN [ok |-> TRUE, Host |-> host]
        ELSE [ok |-> FALSE, Host |-> <<>>]

\* The authority of "//authority/path".
authorityOf(rest) ==
    LET auth0 == Slice(rest, 2, Len(rest))
        cut   == IndexByte(auth0, "/")
    IN  IF cut < 0 THEN auth0 ELSE Slice(auth0, 0, cut)

\* net/url parse after the scheme and the query are cut off: [ok, Host].
parseAfterScheme(scheme, rest) ==
    LET slash   == IndexByte(rest, "/")
        segment == IF slash < 0 THEN rest ELSE Slice(rest, 0, slash)
        none    == [ok |-> TRUE, Host |-> <<>>]
        bad     == [ok |-> FALSE, Host |-> <<>>]
    IN  IF ~HasPrefix(rest, <<"/">>) /\ scheme # <<>> THEN none
        ELSE IF ~HasPrefix(rest, <<"/">>) /\ IndexByte(segment, ":") >= 0 THEN bad
        ELSE IF HasPrefix(rest, <<"/", "/">>) /\ (scheme # <<>> \/ ~HasPrefix(rest, <<"/", "/", "/">>))
             THEN parseAuthority(authorityOf(rest))
        ELSE none

\* s up to the first c, all of s when there is none.
Before(s, c) == IF IndexByte(s, c) < 0 THEN s ELSE Slice(s, 0, IndexByte(s, c))

\* net/url parse, given what getScheme returned.
parseScheme(sch) ==
    IF ~sch.ok THEN [ok |-> FALSE, Host |-> <<>>]
    ELSE parseAfterScheme(sch.scheme, Before(sch.rest, "?"))

\* net/url Parse, as far as Normalize uses it: [ok, Host] of an input over
\* ASCII bytes without "%" and control bytes.
urlParse(raw) ==
    IF Before(raw, "#") = <<"*">> THEN [ok |-> TRUE, Host |-> <<>>]
    ELSE parseScheme(getScheme(Before(raw, "#")))

\* net.SplitHostPort: [ok, host].
SplitHostPort(hostport) ==
    LET i   == LastIndexByte(hostport, ":")
        bad == [ok |-> FALSE, host |-> <<>>]
    IN  IF i < 0 THEN bad
        ELSE IF hostport[1] = "["
        THEN LET end == IndexByte(hostport, "]")
             IN  IF end < 0 \/ end + 1 # i THEN bad
                 ELSE IF IndexByte(Slice(hostport, 1, Len(hostport)), "[") >= 0 THEN bad
                 ELSE IF IndexByte(Slice(hostport, end + 1, Len(hostport)), "]") >= 0 THEN bad
                 ELSE [ok |-> TRUE, host |-> Slice(hostport, 1, end)]
        ELSE LET host == Slice(hostport, 0, i)
             IN  IF IndexByte(host, ":") >= 0 THEN bad
                 ELSE IF IndexByte(hostport, "[") >= 0 \/ IndexByte(hostport, "]") >= 0 THEN bad
                 ELSE [ok |-> TRUE, host |-> host]

\* golang.org/x/net/idna Lookup.ToASCII on an ASCII name: STD3 rules reject
\* every byte outside [a-z0-9.-] (upper case is mapped to lower case), the
\* hyphen check rejects a label that starts or ends with "-" or has "--" in
\* its third and fourth place; leading dots are kept and empty labels pass.
\* Labels with the ACE prefix "xn--" are outside the bytes modelled.
idnaToASCII(s) ==
    LET m == ToLower(s)
        labels == SplitDots(m)
        LabelOk(l) ==
            \/ l = <<>>
            \/ /\ l[1] # "-" /\ l[Len(l)] # "-"
               /\ ~(Len(l) > 4 /\ l[3] = "-" /\ l[4] = "-")
    IN  IF \E i \in 1..Len(m) : m[i] \notin LowerLetters \cup Digits \cup {".", "-"}
        THEN [ok |-> FALSE, ascii |-> <<>>, err |-> "disallowed rune"]
        ELSE IF \E k \in 1..Len(labels) : ~LabelOk(labels[k])
        THEN [ok |-> FALSE, ascii |-> <<>>, err |-> "invalid label"]
        ELSE [ok |-> TRUE, ascii |-> m, err |-> Nil]

\* An isValidDomainASCII that lets a name end with a dot.
isValidDomainASCII_trailingDot(s) ==
    /\ Len(s) >= 2 /\ ~HasPrefix(s, <<".">>)
    /\ \A i \in 1..Len(s) : s[i] \in LowerLetters \cup Digits \cup {"-", "."}

\* An isValidDomainASCII without the limit on the length of a label.
isValidDomainASCII_anyLength(s) ==
    /\ Len(s) >= 1 /\ Len(s) <= 253
    /\ ~HasPrefix(s, <<".">>) /\ ~HasSuffix(s, <<".">>)
    /\ Len(SplitDots(s)) >= 2
    /\ \A k \in 1..Len(SplitDots(s)) :
         /\ Len(SplitDots(s)[k]) >= 1
         /\ SplitDots(s)[k][1] # "-" /\ SplitDots(s)[k][Len(SplitDots(s)[k])] # "-"
         /\ \A i \in 1..Len(SplitDots(s)[k]) :
              SplitDots(s)[k][i] \in LowerLetters \cup Digits \cup {"-"}

isValidDomainASCII(s) ==
    LET labels == SplitDots(s)
    IN  /\ Len(s) >= 1 /\ Len(s) <= 253
        /\ ~HasPrefix(s, <<".">>) /\ ~HasSuffix(s, <<".">>)
        /\ Len(labels) >= 2
        /\ \A k \in 1..Len(labels) :
             LET label == labels[k]
             IN  /\ Len(label) >= 1 /\ Len(label) <= 63
                 /\ label[1] # "-" /\ label[Len(label)] # "-"
                 /\ \A i \in 1..Len(label) : label[i] \in LowerLetters \cup Digits \cup {"-"}

\* Normalize's "://" branch: the URL's host when s parses as a URL with one.
hostOfURL(s) ==
    IF Contains(s, <<":", "/", "/">>) /\ urlParse(s).ok /\ urlParse(s).Host # <<>>
    THEN urlParse(s).Host
    ELSE s

\* Normalize cutting a path, query or fragment.
stripPath(s) ==
    LET cut == IndexAny(s, {"/", "?", "#"})
    IN  IF cut >= 0 THEN Slice(s, 0, cut) ELSE s

\* Normalize cutting a port: SplitHostPort, else an all-digit tail after ":".
stripPort(s) ==
    LET hp == SplitHostPort(s)
        i  == LastIndexByte(s, ":")
    IN  IF hp.ok THEN hp.host
        ELSE IF i > 0 /\ i < Len(s) - 1 /\ isAllDigits(Slice(s, i + 1, Len(s)))
             THEN Slice(s, 0, i)
             ELSE s

\* What Normalize returns on an error.
normalizeError(msg) == [ok |-> FALSE, ascii |-> <<>>, err |-> msg]

\* Normalize's checks of the IDNA result a.
checkASCII(a, input) ==
    IF ~a.ok THEN normalizeError("idna: " \o a.err)
    ELSE IF ~Contains(a.ascii, <<".">>)
    THEN normalizeError("domain must contain a dot: " \o Quote(input))
    ELSE IF ~isValidDomainASCII(a.ascii)
    THEN normalizeError("invalid domain: " \o Quote(input))
    ELSE [ok |-> TRUE, ascii |-> a.ascii, err |-> Nil]

\* Normalize from the trimmed, lower-cased host s on.
normalizeHost(s, input) ==
    IF s = <<>> THEN normalizeError("empty domain")
    ELSE checkASCII(idnaToASCII(s), input)

\* Normalize: [ok, ascii, err].
Normalize(input) ==
    IF TrimSpace(input) = <<>> THEN normalizeError("empty domain")
    ELSE normalizeHost(
             ToLower(TrimSpace(TrimSuffix(
                 stripPort(stripPath(hostOfURL(TrimSpace(input)))), <<".">>))),
             input)


\* ------------------------------------------------------------- internal/rdap

\* http.StatusOK and http.StatusNotFound.
StatusOK == 200
StatusNotFound == 404

\* What the network gives one HTTP GET: a response with a status code, or a
\* transport error (err is its message).
\* A JSON document as json.Unmarshal into bootstrapJSON sees it: valid says
\* whether it decodes, services is its "services" member.
bootstrapJSON(valid, services) == [valid |-> valid, services |-> services]

\* {"services": [[["de"], ["h://r1/", "h://r2"]], [["io"], ["h://r1/"]]]}
IanaDoc ==
    bootstrapJSON(TRUE,
        << << << <<"d", "e">> >>,
              << <<"h", ":", "/", "/", "r", "1", "/">>, <<"h", ":", "/", "/", "r", "2">> >> >>,
           << << <<"i", "o">> >>,
              << <<"h", ":", "/", "/", "r", "1", "/">> >> >> >>)

\* readErr is the error of reading the body, doc the body of a 200 answer.
HTTPResponse(code) == [code |-> code, err |-> Nil, readErr |-> Nil, doc |-> IanaDoc]
TransportError(msg) == [code |-> 0, err |-> msg, readErr |-> Nil, doc |-> IanaDoc]

\* c.bootstrap before the first successful load.
NoBootstrap == <<>>

\* parseBootstrap's first loop: lower-case TLD -> the URLs of the last
\* two-element service that lists it.
RECURSIVE tldToURLs(_)
tldToURLs(services) ==
    IF services = <<>> THEN <<>>
    ELSE LET svc  == services[Len(services)]
             m    == tldToURLs(SubSeq(services, 1, Len(services) - 1))
             keys == IF Len(svc) # 2 THEN {}
                     ELSE {ToLower(TrimSpace(svc[1][i])) : i \in 1..Len(svc[1])} \ {<<>>}
         IN  [t \in DOMAIN m \cup keys |-> IF t \in keys THEN svc[2] ELSE m[t]]

\* parseBootstrap's second loop over one URL list: trimmed, without empty,
\* unparsable and already seen entries.
RECURSIVE uniq(_, _)
uniq(urls, seen) ==
    IF urls = <<>> THEN <<>>
    ELSE LET u == TrimSpace(Head(urls))
         IN  IF u = <<>> \/ ~urlParse(u).ok \/ u \in seen THEN uniq(Tail(urls), seen)
             ELSE <<u>> \o uniq(Tail(urls), seen \cup {u})

\* parseBootstrap: [ok, bs, err].
parseBootstrap(b) ==
    IF ~b.valid THEN [ok |-> FALSE, bs |-> NoBootstrap, err |-> "invalid character"]
    ELSE [ok |-> TRUE,
          bs |-> [t \in DOMAIN tldToURLs(b.services) |-> uniq(tldToURLs(b.services)[t], {})],
          err |-> Nil]

\* The IANA bootstrap after parseBootstrap: lower-case TLD -> base URLs.
IanaBootstrap == parseBootstrap(IanaDoc).bs

\* rdap and whois lastLabel.
lastLabel(domain) ==
    LET i == LastIndexByte(domain, ".")
    IN  IF i < 0 \/ i = Len(domain) - 1 THEN <<>> ELSE Slice(domain, i + 1, Len(domain))

\* A urlsForTLD that looks the TLD up as it is spelled.
urlsForTLD_caseSensitive(b, tld) ==
    IF tld \in DOMAIN b THEN b[tld] ELSE <<>>

urlsForTLD(b, tld) ==
    IF ToLower(tld) \in DOMAIN b THEN b[ToLower(tld)] ELSE <<>>

\* url.PathEscape of a normalized domain: bytes in [a-z0-9.-] are never escaped.
PathEscape(domain) == domain

rdapURL(base, domain) ==
    TrimRight(base, {"/"}) \o <<"/", "d", "o", "m", "a", "i", "n", "/">> \o PathEscape(domain)

\* fmt.Sprintf("rdap http %d", code)
rdapHTTPReason(code) == "rdap http " \o ToString(code)

\* A lookupOne that classifies 404 like any other error status.
lookupOne_no404(base, domain, resp) ==
    LET u == Str(rdapURL(base, domain))
    IN  IF resp.err # Nil
        THEN [Status |-> "unknown", Confidence |-> "low", Reason |-> "network error",
              URL |-> u, HTTPStatus |-> 0, Err |-> resp.err]
        ELSE IF resp.code = StatusOK
        THEN [Status |-> "taken", Confidence |-> "high", Reason |-> "rdap 200",
              URL |-> u, HTTPStatus |-> resp.code, Err |-> Nil]
        ELSE [Status |-> "unknown", Confidence |-> "low", Reason |-> rdapHTTPReason(resp.code),
              URL |-> u, HTTPStatus |-> resp.code, Err |-> rdapHTTPReason(resp.code)]

\* Client.lookupOne: the evidence for one GET <base>/domain/<name>.
lookupOne(base, domain, resp) ==
    LET u == Str(rdapURL(base, domain))
    IN  IF ~urlParse(rdapURL(base, domain)).ok
        THEN [Status |-> "unknown", Confidence |-> "low", Reason |-> "bad request",
              URL |-> u, HTTPStatus |-> 0, Err |-> "parse " \o Quote(rdapURL(base, domain))]
        ELSE IF resp.err # Nil
        THEN [Status |-> "unknown", Confidence |-> "low", Reason |-> "network error",
              URL |-> u, HTTPStatus |-> 0, Err |-> resp.err]
        ELSE IF resp.code = StatusOK
        THEN [Status |-> "taken", Confidence |-> "high", Reason |-> "rdap 200",
              URL |-> u, HTTPStatus |-> resp.code, Err |-> Nil]
        ELSE IF resp.code = StatusNotFound
        THEN [Status |-> "available", Confidence |-> "high", Reason |-> "rdap 404",
              URL |-> u, HTTPStatus |-> resp.code, Err |-> Nil]
        ELSE [Status |-> "unknown", Confidence |-> "low", Reason |-> rdapHTTPReason(resp.code),
              URL |-> u, HTTPStatus |-> resp.code, Err |-> rdapHTTPReason(resp.code)]

\* The cache file at cachePath: kind is "none" (Stat fails), "dir", "file" or
\* "unreadable" (Stat succeeds, ReadFile fails); fresh says ttl <= 0 or its
\* age is within ttl; doc is its content; writable says the directory can be
\* made and written.
CacheFile(kind, fresh, doc, writable) ==
    [kind |-> kind, fresh |-> fresh, doc |-> doc, writable |-> writable]

NoCacheFile == CacheFile("none", FALSE, bootstrapJSON(FALSE, <<>>), FALSE)

\* loadBootstrap: [ok, bs, err, file] for the fetch's response, file the cache
\* file it leaves; cachePath says whether the path is not "".
loadBootstrap(cachePath, file, resp) ==
    LET fail(err) == [ok |-> FALSE, bs |-> NoBootstrap, err |-> err, file |-> file]
        found(bs, f) == [ok |-> TRUE, bs |-> bs, err |-> Nil, file |-> f]
        usable == cachePath /\ file.kind = "file" /\ parseBootstrap(file.doc).ok
    IN  IF usable /\ file.fresh THEN found(parseBootstrap(file.doc).bs, file)
        ELSE IF resp.err # Nil
        THEN IF usable THEN found(parseBootstrap(file.doc).bs, file) ELSE fail(resp.err)
        ELSE IF resp.code # StatusOK
        THEN fail("rdap bootstrap http " \o ToString(resp.code))
        ELSE IF resp.readErr # Nil THEN fail(resp.readErr)
        ELSE IF ~parseBootstrap(resp.doc).ok THEN fail(parseBootstrap(resp.doc).err)
        ELSE found(parseBootstrap(resp.doc).bs,
                   IF cachePath /\ file.writable /\ file.kind # "dir"
                   THEN CacheFile("file", TRUE, resp.doc, TRUE)
                   ELSE file)

\* Client.getBootstrap under c.mu: [ok, bs, err, cached], cached the new c.bootstrap.
getBootstrap(cached, resp) ==
    IF cached # NoBootstrap THEN [ok |-> TRUE, bs |-> cached, err |-> Nil, cached |-> cached]
    ELSE LET l == loadBootstrap(FALSE, NoCacheFile, resp)
         IN  [ok |-> l.ok, bs |-> l.bs, err |-> l.err, cached |-> IF l.ok THEN l.bs ELSE cached]

\* The Evidence values Client.LookupDomain returns without a request.
rdapInvalidDomain ==
    [Status |-> "unknown", Confidence |-> "low", Reason |-> "invalid domain",
     URL |-> "", HTTPStatus |-> 0, Err |-> "invalid domain"]

rdapBootstrapUnavailable(err) ==
    [Status |-> "unknown", Confidence |-> "low", Reason |-> "rdap bootstrap unavailable",
     URL |-> "", HTTPStatus |-> 0, Err |-> err]

rdapNoService ==
    [Status |-> "unknown", Confidence |-> "low", Reason |-> "no rdap service for tld",
     URL |-> "", HTTPStatus |-> 0, Err |-> Nil]

\* The Evidence Client.LookupDomain returns when every candidate was unknown.
rdapLookupFailed(lastErr) ==
    [Status |-> "unknown", Confidence |-> "low", Reason |-> "rdap lookup failed",
     URL |-> "", HTTPStatus |-> 0, Err |-> lastErr]

\* The zero Evidence (before a lookup returned).
NoEvidence ==
    [Status |-> "", Confidence |-> "", Reason |-> "", URL |-> "", HTTPStatus |-> 0, Err |-> Nil]


\* ------------------------------------------------------------ internal/whois

\* notFoundPatterns, in the order classify tries them: needle k has tag [k].
notFoundPatterns ==
    << [Pattern |-> "no_match_for",
        Needle  |-> <<"n", "o", " ", "m", "a", "t", "c", "h", " ", "f", "o", "r">>],
       [Pattern |-> "no_data_found",
        Needle  |-> <<"n", "o", " ", "d", "a", "t", "a", " ", "f", "o", "u", "n", "d">>],
       [Pattern |-> "no_entries_found",
        Needle  |-> <<"n", "o", " ", "e", "n", "t", "r", "i", "e", "s", " ", "f", "o", "u",
                    "n", "d">>],
       [Pattern |-> "domain_not_found",
        Needle  |-> <<"d", "o", "m", "a", "i", "n", " ", "n", "o", "t", " ", "f", "o", "u",
                    "n", "d">>],
       [Pattern |-> "no_such_domain",
        Needle  |-> <<"n", "o", " ", "s", "u", "c", "h", " ", "d", "o", "m", "a", "i", "n">>],
       [Pattern |-> "status_free",
        Needle  |-> <<"s", "t", "a", "t", "u", "s", ":", " ", "f", "r", "e", "e">>],
       [Pattern |-> "not_found",
        Needle  |-> <<"n", "o", "t", " ", "f", "o", "u", "n", "d">>] >>

\* The prefixes of the three record regexes classify compiles, in order.
recordRegexes ==
    << "(?im)^domain name:\\s*", "(?im)^domain:\\s*", "(?im)^domain\\s*:\\s*" >>

\* regexp.QuoteMeta of a normalized domain: only "." is a metacharacter.
RECURSIVE QuoteMeta(_)
QuoteMeta(d) ==
    IF d = <<>> THEN ""
    ELSE (IF d[1] = "." THEN "\\." ELSE d[1]) \o QuoteMeta(Tail(d))

\* A WHOIS reply body, by what classify tests of it: needles, the indexes of
\* the notFoundPatterns its lower-cased text contains; names, the indexes of
\* the recordRegexes that match a line naming the queried domain; fields,
\* whether its lower-cased text contains "domain name:" or "registrar:".
Body(needles, names, fields) == [needles |-> needles, names |-> names, fields |-> fields]

Min(S) == CHOOSE x \in S : \A y \in S : x <= y

\* The recordRegexes that match in text for domain: at the start of a line,
\* in any case, "domain name:", "domain:" or "domain", blanks and ":"; then
\* blanks, the domain, blanks and the end of a line. The blanks of \s* may
\* be line breaks, and "$" stands before "\n" or at the end of the text.
recordNames(domain, text) ==
    LET l == ToLower(text)
        At(i, sub) == i + Len(sub) - 1 <= Len(l) /\ SubSeq(l, i, i + Len(sub) - 1) = sub
        Skip(i, set) == Len(l) + 1 - Len(TrimLeft(SubSeq(l, i, Len(l)), set))
        Ends(i) == \/ Skip(i, WhiteSpace \ {"\n"}) > Len(l)
                   \/ l[Skip(i, WhiteSpace \ {"\n"})] = "\n"
        Name(i) == /\ At(Skip(i, WhiteSpace), ToLower(domain))
                   /\ Ends(Skip(i, WhiteSpace) + Len(domain))
        Starts == {p \in 1..Len(l) : p = 1 \/ l[p - 1] = "\n"}
    IN  {k \in 1..3 : \E p \in Starts :
           CASE k = 1 -> At(p, <<"d", "o", "m", "a", "i", "n", " ", "n", "a", "m", "e", ":">>)
                         /\ Name(p + 12)
             [] k = 2 -> At(p, <<"d", "o", "m", "a", "i", "n", ":">>) /\ Name(p + 7)
             [] k = 3 -> /\ At(p, <<"d", "o", "m", "a", "i", "n">>)
                         /\ At(Skip(p + 6, WhiteSpace), <<":">>)
                         /\ Name(Skip(p + 6, WhiteSpace) + 1)}

\* The Body of the text a WHOIS server sent for domain.
bodyOf(domain, text) ==
    Body({k \in DOMAIN notFoundPatterns : Contains(ToLower(text), notFoundPatterns[k].Needle)},
         recordNames(domain, text),
         \/ Contains(ToLower(text), <<"d", "o", "m", "a", "i", "n", " ", "n", "a", "m", "e", ":">>)
         \/ Contains(ToLower(text), <<"r", "e", "g", "i", "s", "t", "r", "a", "r", ":">>))

\* A classify that looks for a record before it looks for the needles.
classify_recordFirst(domain, body) ==
    IF body.names # {}
    THEN [status |-> "taken",
          pattern |-> "(?im)^domain" \o QuoteMeta(domain) \o "\\s*$"]
    ELSE IF body.fields
    THEN [status |-> "taken", pattern |-> "heuristic_record_fields"]
    ELSE IF body.needles # {}
    THEN [status |-> "available", pattern |-> "not_found"]
    ELSE [status |-> "unknown", pattern |-> ""]

\* classify: [status, pattern].
classify(domain, body) ==
    IF body.needles # {}
    THEN [status |-> "available", pattern |-> notFoundPatterns[Min(body.needles)].Pattern]
    ELSE IF body.names # {}
    THEN [status |-> "taken",
          pattern |-> recordRegexes[Min(body.names)] \o QuoteMeta(domain) \o "\\s*$"]
    ELSE IF body.fields
    THEN [status |-> "taken", pattern |-> "heuristic_record_fields"]
    ELSE [status |-> "unknown", pattern |-> ""]

\* What the network gives one Client.query (all its attempts together): the
\* reply body, or the error of the last attempt.
QueryReply(body) == [err |-> Nil, body |-> body, server |-> ""]
QueryError(msg) == [err |-> msg, body |-> Body({}, {}, FALSE), server |-> ""]
\* The whois.iana.org reply for a TLD, by the server its first "whois:" line
\* names ("" when it has none).
IanaReply(server) == [err |-> Nil, body |-> Body({}, {}, FALSE), server |-> server]

\* serverForTLD's scan of the body whois.iana.org sent: the first token after
\* the first "whois:" that starts a line, "" when no line starts with it;
\* panic when nothing follows it, strings.Fields(server)[0] being out of range.
RECURSIVE ianaServer(_)
ianaServer(body) ==
    LET line  == TrimSpace(Before(body, "\n"))
        value == TrimSpace(Slice(line, 6, Len(line)))
    IN  IF body = <<>> THEN [panic |-> FALSE, server |-> ""]
        ELSE IF HasPrefix(ToLower(line), <<"w", "h", "o", "i", "s", ":">>)
        THEN IF value = <<>> THEN [panic |-> TRUE, server |-> ""]
             ELSE [panic |-> FALSE,
                   server |-> Str(IF IndexAny(value, WhiteSpace) < 0 THEN value
                                  ELSE Slice(value, 0, IndexAny(value, WhiteSpace)))]
        ELSE IF IndexByte(body, "\n") < 0 THEN [panic |-> FALSE, server |-> ""]
        ELSE ianaServer(Slice(body, IndexByte(body, "\n") + 1, Len(body)))

\* fmt.Errorf("whois server not found for tld %q", tld)
whoisNoServerErr(tld) == "whois server not found for tld " \o Quote(tld)

\* Client.serverForTLD: [ok, server, err, cache], cache the new c.tldToServer.
serverForTLD(cache, tld0, iana) ==
    LET tld == ToLower(TrimSpace(tld0))
    IN  IF tld = <<>> THEN [ok |-> FALSE, server |-> "", err |-> "empty tld", cache |-> cache]
        ELSE IF tld \in DOMAIN cache /\ cache[tld] # ""
        THEN [ok |-> TRUE, server |-> cache[tld], err |-> Nil, cache |-> cache]
        ELSE IF iana.err # Nil
        THEN [ok |-> FALSE, server |-> "", err |-> iana.err, cache |-> cache]
        ELSE IF iana.server # ""
        THEN [ok |-> TRUE, server |-> iana.server, err |-> Nil,
              cache |-> [t \in DOMAIN cache \cup {tld} |-> IF t = tld THEN iana.server ELSE cache[t]]]
        ELSE [ok |-> FALSE, server |-> "", err |-> whoisNoServerErr(tld), cache |-> cache]

\* The zero whois Evidence.
NoWhoisEvidence ==
    [Status |-> "", Confidence |-> "", Reason |-> "", Server |-> "", Pattern |-> "", Err |-> Nil]

\* whois Client.LookupDomain: [ev, cache] for the replies of whois.iana.org
\* (consulted only when the TLD's server is not cached) and of the server.
whoisLookupDomain(cache, domain, iana, reply) ==
    LET tld == lastLabel(domain)
        srv == serverForTLD(cache, tld, iana)
        c   == classify(domain, reply.body)
    IN  IF tld = <<>>
        THEN [ev |-> [Status |-> "unknown", Confidence |-> "low", Reason |-> "invalid domain",
                      Server |-> "", Pattern |-> "", Err |-> "invalid domain"],
              cache |-> cache]
        ELSE IF ~srv.ok
        THEN [ev |-> [Status |-> "unknown", Confidence |-> "low", Reason |-> "no whois server",
                      Server |-> "", Pattern |-> "", Err |-> srv.err],
              cache |-> srv.cache]
        ELSE IF reply.err # Nil
        THEN [ev |-> [Status |-> "unknown", Confidence |-> "low", Reason |-> "whois query failed",
                      Server |-> srv.server, Pattern |-> "", Err |-> reply.err],
              cache |-> srv.cache]
        ELSE IF c.status = "available"
        THEN [ev |-> [Status |-> "available", Confidence |-> "medium",
                      Reason |-> "whois not-found pattern",
                      Server |-> srv.server, Pattern |-> c.pattern, Err |-> Nil],
              cache |-> srv.cache]
        ELSE IF c.status = "taken"
        THEN [ev |-> [Status |-> "taken", Confidence |-> "medium", Reason |-> "whois record found",
                      Server |-> srv.server, Pattern |-> c.pattern, Err |-> Nil],
              cache |-> srv.cache]
        ELSE [ev |-> [Status |-> "unknown", Confidence |-> "low", Reason |-> "whois ambiguous",
                      Server |-> srv.server, Pattern |-> "", Err |-> Nil],
              cache |-> srv.cache]


\* ----------------------------------------- internal/availability: checkOne

StatusAvailable == "available"
StatusTaken == "taken"
StatusUnknown == "unknown"

MethodRDAP == "rdap"
MethodWHOIS == "whois"
MethodNone == "none"

\* A *bool: <<>> is nil, <<v>> points to v.
NilBool == <<>>
boolPtr(v) == <<v>>

\* time.Now().UTC().Format(time.RFC3339Nano), as an opaque non-empty stamp.
Now == "now"

\* The zero Result of a lookup; the registrar group is added by ZeroRegistrar.
ZeroResult ==
    [Input |-> <<>>, Domain |-> <<>>, Label |-> <<>>, TLD |-> <<>>,
     Status |-> "", Registered |-> NilBool, Method |-> "", Confidence |-> "",
     Detail |-> "", Error |-> "", CheckedAt |-> "",
     RDAPStatus |-> "", RDAPReason |-> "", RDAPError |-> "", RDAPURL |-> "", RDAPCode |-> 0,
     WHOISStatus |-> "", WHOISReason |-> "", WHOISError |-> "", WHOISServer |-> "",
     WHOISPattern |-> ""]

\* splitDomain: [label, tld].
splitDomain(d) ==
    LET i == LastIndexByte(d, ".")
    IN  IF i < 0 \/ i = Len(d) - 1 THEN [label |-> <<>>, tld |-> <<>>]
        ELSE [label |-> Slice(d, 0, i), tld |-> Slice(d, i + 1, Len(d))]

\* checkOne's initial Result.
initialResult(input) ==
    [ZeroResult EXCEPT !.Input = TrimSpace(input), !.Status = StatusUnknown,
                       !.Method = MethodNone, !.Confidence = "low"]

\* An invalidResult that leaves Detail empty.
invalidResult_noDetail(r, input, err) ==
    [r EXCEPT !.Domain = TrimSpace(input), !.Error = err, !.CheckedAt = Now]

\* checkOne when Normalize fails with err.
invalidResult(r, input, err) ==
    [r EXCEPT !.Domain = TrimSpace(input), !.Error = err, !.Detail = "invalid input",
              !.CheckedAt = Now]

\* checkOne after Normalize returned ascii.
normalizedResult(r, ascii) ==
    [r EXCEPT !.Domain = ascii, !.Label = splitDomain(ascii).label,
              !.TLD = splitDomain(ascii).tld,
              !.Input = IF r.Input = ascii THEN <<>> ELSE r.Input]

\* checkOne recording the diagnostics of the RDAP evidence.
recordRdap(r, ev) ==
    LET e == IF ev.Err # Nil THEN ev.Err ELSE r.RDAPError
    IN  [r EXCEPT !.Method = MethodRDAP, !.RDAPStatus = ev.Status, !.RDAPReason = ev.Reason,
                  !.RDAPError = e,
                  !.Error = IF ev.Err # Nil /\ r.Error = "" THEN e ELSE r.Error,
                  !.RDAPURL = ev.URL, !.RDAPCode = ev.HTTPStatus]

\* An rdapAvailable that keeps the initial confidence.
rdapAvailable_keepConfidence(r, ev) ==
    [r EXCEPT !.Status = StatusAvailable, !.Registered = boolPtr(FALSE), !.Method = MethodRDAP,
              !.Detail = ev.Reason, !.Error = "", !.CheckedAt = Now]

\* checkOne's terminal Result for RDAP evidence "available".
rdapAvailable(r, ev) ==
    [r EXCEPT !.Status = StatusAvailable, !.Registered = boolPtr(FALSE), !.Method = MethodRDAP,
              !.Confidence = ev.Confidence, !.Detail = ev.Reason, !.Error = "",
              !.CheckedAt = Now]

\* checkOne's terminal Result for RDAP evidence "taken".
rdapTaken(r, ev) ==
    [r EXCEPT !.Status = StatusTaken, !.Registered = boolPtr(TRUE), !.Method = MethodRDAP,
              !.Confidence = ev.Confidence, !.Detail = ev.Reason, !.Error = "",
              !.CheckedAt = Now]

\* checkOne keeping the first non-empty reason of an unknown evidence as Detail.
unknownDetail(r, ev) ==
    [r EXCEPT !.Detail = IF r.Detail = "" /\ ev.Reason # "" THEN ev.Reason ELSE r.Detail]

\* A recordWhois that leaves Method as it was.
recordWhois_noMethod(r, ev) ==
    LET e == IF ev.Err # Nil THEN ev.Err ELSE r.WHOISError
    IN  [r EXCEPT !.WHOISStatus = ev.Status, !.WHOISReason = ev.Reason,
                  !.WHOISError = e, !.Error = IF ev.Err # Nil THEN e ELSE r.Error,
                  !.WHOISServer = ev.Server, !.WHOISPattern = ev.Pattern]

\* checkOne recording the diagnostics of the WHOIS evidence.
recordWhois(r, ev) ==
    LET e == IF ev.Err # Nil THEN ev.Err ELSE r.WHOISError
    IN  [r EXCEPT !.Method = MethodWHOIS, !.WHOISStatus = ev.Status, !.WHOISReason = ev.Reason,
                  !.WHOISError = e, !.Error = IF ev.Err # Nil THEN e ELSE r.Error,
                  !.WHOISServer = ev.Server, !.WHOISPattern = ev.Pattern]

\* A whoisAvailable that leaves Error as it was.
whoisAvailable_keepError(r, ev) ==
    [r EXCEPT !.Status = StatusAvailable, !.Registered = boolPtr(FALSE), !.Method = MethodWHOIS,
              !.Confidence = ev.Confidence, !.Detail = ev.Reason, !.CheckedAt = Now]

\* checkOne's terminal Result for WHOIS evidence "available".
whoisAvailable(r, ev) ==
    [r EXCEPT !.Status = StatusAvailable, !.Registered = boolPtr(FALSE), !.Method = MethodWHOIS,
              !.Confidence = ev.Confidence, !.Detail = ev.Reason, !.Error = "",
              !.CheckedAt = Now]

\* A whoisTaken that copies whoisAvailable's Registered.
whoisTaken_registeredFalse(r, ev) ==
    [r EXCEPT !.Status = StatusTaken, !.Registered = boolPtr(FALSE), !.Method = MethodWHOIS,
              !.Confidence = ev.Confidence, !.Detail = ev.Reason, !.Error = "",
              !.CheckedAt = Now]

\* checkOne's terminal Result for WHOIS evidence "taken".
whoisTaken(r, ev) ==
    [r EXCEPT !.Status = StatusTaken, !.Registered = boolPtr(TRUE), !.Method = MethodWHOIS,
              !.Confidence = ev.Confidence, !.Detail = ev.Reason, !.Error = "",
              !.CheckedAt = Now]

\* checkOne's summary of the per-method reasons, and its exit.
summaryResult(r) ==
    LET d == IF r.Detail # "" THEN r.Detail
             ELSE IF r.RDAPReason # "" /\ r.WHOISReason # ""
                  THEN "rdap: " \o r.RDAPReason \o "; whois: " \o r.WHOISReason
             ELSE IF r.RDAPReason # "" THEN "rdap: " \o r.RDAPReason
             ELSE IF r.WHOISReason # "" THEN "whois: " \o r.WHOISReason
             ELSE "lookup unavailable"
    IN  [r EXCEPT !.Detail = d, !.CheckedAt = Now]

\* A whoisEnabled that forgets the --no-whois flag.
whoisEnabled_ignoreFlag(o) == o.WHOIS

\* checkOne's guard of the WHOIS lookup.
whoisEnabled(o) == ~o.NoWHOIS /\ o.WHOIS

\* A loop that keeps the first error instead of the last.
nextLastErr_first(lastErr, ev) ==
    IF lastErr = Nil THEN ev.Err ELSE lastErr

\* rdap LookupDomain's loop: lastErr after a candidate answered unknown.
nextLastErr(lastErr, ev) ==
    IF ev.Err # Nil THEN ev.Err ELSE lastErr


\* ------------------------------------- internal/availability: CheckDomains

\* NewChecker's default for a Concurrency <= 0.
DefaultConcurrency == 16

\* NewChecker: the Concurrency the Checker keeps.
NewChecker(concurrency) == IF concurrency <= 0 THEN DefaultConcurrency ELSE concurrency

\* A pool with one goroutine more than asked for.
Workers_oneMore(o) == (IF o.Concurrency < 1 THEN 1 ELSE o.Concurrency) + 1

\* CheckDomains: the number of worker goroutines.
Workers(o) == IF o.Concurrency < 1 THEN 1 ELSE o.Concurrency

\* A collector that fills the output in completion order.
storeResult_arrival(out, o) ==
    LET free == {i \in 1..Len(out) : out[i] = ZeroResult}
    IN  [out EXCEPT ![Min(free)] = o.res]

\* CheckDomains' collector: outSlice[r.idx] = r.res.
storeResult(out, o) == [out EXCEPT ![o.idx + 1] = o.res]

VARIABLES
    inputs,         \* CheckDomains' argument
    opts,           \* c.opts: RDAP and WHOIS say whether the client is non-nil
    world,          \* what the network can answer in this run
    bootstrap,      \* the RDAP client's c.bootstrap
    tldToServer,    \* the WHOIS client's c.tldToServer
    prod,           \* the producer goroutine: its place and loop index
    jobsClosed,     \* close(jobs) happened
    resultsClosed,  \* close(results) happened
    wg,             \* the WaitGroup counter
    loc,            \* each worker goroutine's place and locals
    outSlice,       \* the collector's output slice
    returned,       \* CheckDomains returned outSlice
    trace,          \* history: per input index, the lookups made for it
    computed,       \* history: per input index, what checkOne returned for it
    arrivals        \* history: the indexes in the order the collector received them

\* One call of a function on its own: its arguments and what it returned.
VARIABLES
    call,           \* fn names the function, the other fields are its arguments
    retval          \* <<its return value>>, <<>> before it returns

\* The WHOIS client's query loop, run by several goroutines that share the
\* client and its context.
VARIABLES
    whoisOpts,      \* the Options handed to whois.NewClient
    now,            \* the clock, in milliseconds
    cancelAt,       \* when ctx was cancelled, -1 while it is not
    serverState,    \* c.serverState: per server, permits taken and st.next
    caller,         \* each goroutine in Client.query: its place and locals
    reserved,       \* history: per server, the scheduled times in reservation order
    wlog            \* history: per goroutine, the steps of its attempts

\* ------------------------------------------------- internal/registrar/porkbun

\* Go's int and time.Duration have 64 bits, TLC's integers 32: a value of 64
\* bits is held as [neg, mag], mag being three digits of base 10^6, most
\* significant first.
Limb == 1000 * 1000

Int64(n) == [neg |-> n < 0, mag |-> <<0, (IF n < 0 THEN -n ELSE n) \div Limb,
                                      (IF n < 0 THEN -n ELSE n) % Limb>>]

\* 2^63 and 2^64.
TwoTo63 == <<9223372, 36854, 775808>>
TwoTo64 == <<18446744, 73709, 551616>>

magLess(x, y) ==
    \/ x[1] < y[1]
    \/ x[1] = y[1] /\ x[2] < y[2]
    \/ x[1] = y[1] /\ x[2] = y[2] /\ x[3] < y[3]

\* x - y for x >= y.
magSub(x, y) ==
    LET lo  == x[3] - y[3]
        mid == x[2] - y[2] - (IF lo < 0 THEN 1 ELSE 0)
    IN  <<x[1] - y[1] - (IF mid < 0 THEN 1 ELSE 0),
          IF mid < 0 THEN mid + Limb ELSE mid,
          IF lo < 0 THEN lo + Limb ELSE lo>>

\* 10 * x + d.
magShift(x, d) ==
    LET lo  == 10 * x[3] + d
        mid == 10 * x[2] + lo \div Limb
    IN  <<10 * x[1] + mid \div Limb, mid % Limb, lo % Limb>>

\* The bits of x that 64 bits keep, read as a signed value.
RECURSIVE wrap64(_)
wrap64(x) ==
    IF ~magLess(x, TwoTo64) THEN wrap64(magSub(x, TwoTo64))
    ELSE IF ~magLess(x, TwoTo63) THEN [neg |-> TRUE, mag |-> magSub(TwoTo64, x)]
    ELSE [neg |-> FALSE, mag |-> x]

\* strconv.Atoi of a string of digits with an optional sign: the value, the
\* nearest int64 when it is out of range, 0 when s is no number.
RECURSIVE atoiDigits(_)
atoiDigits(s) ==
    IF s = <<>> THEN <<0, 0, 0>>
    ELSE LET v == atoiDigits(SubSeq(s, 1, Len(s) - 1))
         IN  IF ~magLess(v, <<922337, 203685, 477581>>) THEN TwoTo64
             ELSE magShift(v, CHOOSE d \in 0..9 :
                                 <<"0", "1", "2", "3", "4", "5", "6", "7", "8", "9">>[d + 1] = s[Len(s)])

Atoi(s) ==
    LET neg    == s # <<>> /\ s[1] = "-"
        digits == IF s # <<>> /\ s[1] \in {"-", "+"} THEN Tail(s) ELSE s
        v      == atoiDigits(digits)
    IN  IF digits = <<>> \/ \E i \in 1..Len(digits) : digits[i] \notin Digits THEN Int64(0)
        ELSE IF neg THEN [neg |-> v # <<0, 0, 0>>,
                          mag |-> IF magLess(TwoTo63, v) THEN TwoTo63 ELSE v]
        ELSE [neg |-> FALSE,
              mag |-> IF ~magLess(v, TwoTo63) THEN magSub(TwoTo63, <<0, 0, 1>>) ELSE v]

\* time.Duration(ttl) * time.Second in nanoseconds, for 0 < ttl < 10^12: the
\* product keeps its low 64 bits.
mulSecond(ttl) ==
    wrap64(<<ttl.mag[2] * 1000 + ttl.mag[3] \div 1000, (ttl.mag[3] % 1000) * 1000, 0>>)

\* x / n for 0 <= x and 0 < n < 2000.
magDiv(x, n) ==
    <<x[1] \div n,
      ((x[1] % n) * Limb + x[2]) \div n,
      ((((x[1] % n) * Limb + x[2]) % n) * Limb + x[3]) \div n>>

\* A duration of ns nanoseconds in the milliseconds the clock counts; what is
\* less than a millisecond is left out.
Milliseconds(ns) == ns[1] * Limb + ns[2]

\* 5 * time.Second, in nanoseconds and in milliseconds.
FiveSeconds == <<0, 5000, 0>>

\* The value updateDynamicDelay computes for the limits l, in milliseconds;
\* 0 when it returns before it takes the lock.
perRequest(l) ==
    IF l.TTLSeconds.neg \/ l.TTLSeconds.mag = <<0, 0, 0>> THEN 0
    ELSE IF l.Limit.neg \/ l.Limit.mag = <<0, 0, 0>> THEN 0
    ELSE IF mulSecond(l.TTLSeconds).neg THEN 0
    ELSE IF magLess(FiveSeconds, magDiv(mulSecond(l.TTLSeconds).mag, l.Limit.mag[3]))
    THEN Milliseconds(FiveSeconds)
    ELSE Milliseconds(magDiv(mulSecond(l.TTLSeconds).mag, l.Limit.mag[3]))

\* updateDynamicDelay: c.dynamicMinDelay afterwards.
updateDynamicDelay(dynamicMinDelay, l) ==
    IF perRequest(l) > dynamicMinDelay THEN perRequest(l) ELSE dynamicMinDelay

\* A *registrar.Limits: <<>> is nil, <<l>> points to l.
NoLimits == <<>>

\* The zero registrar.DomainCheck.
ZeroDomainCheck ==
    [Buyable |-> FALSE, Premium |-> FALSE, Price |-> "", RegularPrice |-> "",
     Currency |-> "", MinDuration |-> 0, FirstYearPromo |-> FALSE, Limits |-> NoLimits]

\* strings.ToUpper on ASCII bytes.
ToUpper(s) ==
    [i \in 1..Len(s) |->
        IF s[i] \in LowerLetters THEN CHOOSE u \in UpperLetters : UpperToLower[u] = s[i]
        ELSE s[i]]

\* NewClient's defaults; durations in milliseconds.
NewPorkbunClient(o) ==
    [o EXCEPT !.MinDelay = IF o.MinDelay <= 0 THEN 200 ELSE o.MinDelay,
              !.MaxConcurrent = IF o.MaxConcurrent <= 0 THEN 2 ELSE o.MaxConcurrent]

yesNo(s) ==
    ToLower(TrimSpace(s)) \in {<<"y", "e", "s">>, <<"t", "r", "u", "e">>, <<"1">>}

\* parseLimits: <<>> is nil.
parseLimits(l) ==
    IF /\ Atoi(TrimSpace(l.TTL)) = Int64(0) /\ Atoi(TrimSpace(l.Limit)) = Int64(0)
       /\ l.Used = 0 /\ TrimSpace(l.NaturalLanguage) = <<>>
    THEN NoLimits
    ELSE <<[TTLSeconds |-> Atoi(TrimSpace(l.TTL)), Limit |-> Atoi(TrimSpace(l.Limit)),
            Used |-> l.Used, NaturalLanguage |-> Str(TrimSpace(l.NaturalLanguage))]>>

\* What http.Do and the body give CheckDomain: a transport error, or a status
\* code with a body that is JSON (decoded) or not.
PorkbunResponses ==
    { [err |-> "Post \"https://api.porkbun.com/api/json/v3/domain/checkDomain/a.de\": EOF",
       code |-> 0, body |-> <<>>, valid |-> FALSE, decoded |-> <<>>],
      [err |-> Nil, code |-> 500, body |-> <<" ", "o", "o", "p", "s", "\n">>, valid |-> FALSE,
       decoded |-> <<>>],
      [err |-> Nil, code |-> StatusOK, body |-> <<"<">>, valid |-> FALSE, decoded |-> <<>>],
      [err |-> Nil, code |-> StatusOK, body |-> <<>>, valid |-> TRUE, decoded |->
          [Status |-> <<"E", "R", "R", "O", "R">>, Message |-> <<" ", "I", "n", "v", "a", "l", "i", "d", " ", "A", "P", "I", " ", "k", "e", "y", ".", " ">>,
           Response |-> [Avail |-> <<>>, Price |-> <<>>, RegularPrice |-> <<>>, Premium |-> <<>>,
                         MinDuration |-> 0, FirstYearPromo |-> <<>>],
           Limits |-> [TTL |-> <<>>, Limit |-> <<>>, Used |-> 0, NaturalLanguage |-> <<>>]]],
      [err |-> Nil, code |-> StatusOK, body |-> <<>>, valid |-> TRUE, decoded |->
          [Status |-> <<"e", "r", "r", "o", "r">>, Message |-> <<" ", " ">>,
           Response |-> [Avail |-> <<>>, Price |-> <<>>, RegularPrice |-> <<>>, Premium |-> <<>>,
                         MinDuration |-> 0, FirstYearPromo |-> <<>>],
           Limits |-> [TTL |-> <<>>, Limit |-> <<>>, Used |-> 0, NaturalLanguage |-> <<>>]]],
      [err |-> Nil, code |-> StatusOK, body |-> <<>>, valid |-> TRUE, decoded |->
          [Status |-> <<"s", "u", "c", "c", "e", "s", "s">>, Message |-> <<>>,
           Response |-> [Avail |-> <<"y", "e", "s">>, Price |-> <<"9", ".", "7", "3">>, RegularPrice |-> <<"1", "1", ".", "8", "2">>, Premium |-> <<"n", "o">>,
                         MinDuration |-> 1, FirstYearPromo |-> <<"y", "e", "s">>],
           Limits |-> [TTL |-> <<"1", "0">>, Limit |-> <<"4">>, Used |-> 1, NaturalLanguage |-> <<"1", " ", "o", "f", " ", "4", " ", "i", "n", " ", "1", "0", " ", "s">>]]],
      [err |-> Nil, code |-> StatusOK, body |-> <<>>, valid |-> TRUE, decoded |->
          [Status |-> <<"S", "U", "C", "C", "E", "S", "S">>, Message |-> <<>>,
           Response |-> [Avail |-> <<>>, Price |-> <<" ", "9", ".", "7", "3", " ">>, RegularPrice |-> <<>>, Premium |-> <<>>,
                         MinDuration |-> 1, FirstYearPromo |-> <<"n", "o">>],
           Limits |-> [TTL |-> <<" ", "1", "0", " ">>, Limit |-> <<"1">>, Used |-> 1, NaturalLanguage |-> <<>>]]],
      [err |-> Nil, code |-> StatusOK, body |-> <<>>, valid |-> TRUE, decoded |->
          [Status |-> <<"S", "U", "C", "C", "E", "S", "S">>, Message |-> <<>>,
           Response |-> [Avail |-> <<"n", "o">>, Price |-> <<>>, RegularPrice |-> <<>>, Premium |-> <<"y", "e", "s">>,
                         MinDuration |-> 0, FirstYearPromo |-> <<>>],
           Limits |-> [TTL |-> <<>>, Limit |-> <<>>, Used |-> 0, NaturalLanguage |-> <<>>]]],
      [err |-> Nil, code |-> StatusOK, body |-> <<>>, valid |-> TRUE, decoded |->
          [Status |-> <<"S", "U", "C", "C", "E", "S", "S">>, Message |-> <<>>,
           Response |-> [Avail |-> <<"t", "r", "u", "e">>, Price |-> <<"9", ".", "7", "3">>, RegularPrice |-> <<>>, Premium |-> <<"1">>,
                         MinDuration |-> 1, FirstYearPromo |-> <<>>],
           Limits |-> [TTL |-> <<"0">>, Limit |-> <<"4">>, Used |-> 2, NaturalLanguage |-> <<>>]]],
      [err |-> Nil, code |-> StatusOK, body |-> <<>>, valid |-> TRUE, decoded |->
          [Status |-> <<"S", "U", "C", "C", "E", "S", "S">>, Message |-> <<>>,
           Response |-> [Avail |-> <<"y", "e", "s">>, Price |-> <<"9", ".", "7", "3">>, RegularPrice |-> <<>>, Premium |-> <<>>,
                         MinDuration |-> 1, FirstYearPromo |-> <<>>],
           Limits |-> [TTL |-> <<"1">>, Limit |-> <<"1">>, Used |-> 0, NaturalLanguage |-> <<>>]]],
      [err |-> Nil, code |-> StatusOK, body |-> <<>>, valid |-> TRUE, decoded |->
          [Status |-> <<"S", "U", "C", "C", "E", "S", "S">>, Message |-> <<>>,
           Response |-> [Avail |-> <<"y", "e", "s">>, Price |-> <<"9", ".", "7", "3">>, RegularPrice |-> <<>>, Premium |-> <<>>,
                         MinDuration |-> 1, FirstYearPromo |-> <<>>],
           Limits |-> [TTL |-> <<"9", "2", "2", "3", "3", "7", "2", "0", "3", "7">>, Limit |-> <<"1">>, Used |-> 0, NaturalLanguage |-> <<>>]]] }

\* The text of CheckDomain's error for a decoded body whose status is not
\* SUCCESS.
statusError(decoded) ==
    <<"p", "o", "r", "k", "b", "u", "n", ":", " ">>
    \o (IF TrimSpace(decoded.Message) = <<>>
        THEN <<"u", "n", "k", "n", "o", "w", "n", " ", "e", "r", "r", "o", "r">>
        ELSE TrimSpace(decoded.Message))

\* A decodeResponse that takes any answer with status 200 for a success.
decodeResponse_trusting(resp) ==
    IF resp.err # Nil THEN [dc |-> ZeroDomainCheck, err |-> resp.err]
    ELSE IF resp.code # StatusOK
    THEN [dc |-> ZeroDomainCheck,
          err |-> "porkbun: http " \o ToString(resp.code) \o ": " \o Str(TrimSpace(resp.body))]
    ELSE IF ~resp.valid
    THEN [dc |-> ZeroDomainCheck, err |-> "porkbun: decode error: invalid character '<' looking for beginning of value"]
    ELSE [dc |-> [Buyable |-> yesNo(resp.decoded.Response.Avail),
                  Premium |-> yesNo(resp.decoded.Response.Premium),
                  Price |-> Str(TrimSpace(resp.decoded.Response.Price)),
                  RegularPrice |-> Str(TrimSpace(resp.decoded.Response.RegularPrice)),
                  Currency |-> "",
                  MinDuration |-> resp.decoded.Response.MinDuration,
                  FirstYearPromo |-> yesNo(resp.decoded.Response.FirstYearPromo),
                  Limits |-> parseLimits(resp.decoded.Limits)],
          err |-> Nil]

\* The part of CheckDomain after the body is read: [dc, err].
decodeResponse(resp) ==
    IF resp.err # Nil THEN [dc |-> ZeroDomainCheck, err |-> resp.err]
    ELSE IF resp.code # StatusOK
    THEN [dc |-> ZeroDomainCheck,
          err |-> "porkbun: http " \o ToString(resp.code) \o ": " \o Str(TrimSpace(resp.body))]
    ELSE IF ~resp.valid
    THEN [dc |-> ZeroDomainCheck, err |-> "porkbun: decode error: invalid character '<' looking for beginning of value"]
    ELSE IF ToUpper(resp.decoded.Status) # <<"S", "U", "C", "C", "E", "S", "S">>
    THEN [dc |-> ZeroDomainCheck,
          err |-> Str(statusError(resp.decoded))]
    ELSE [dc |-> [Buyable |-> yesNo(resp.decoded.Response.Avail),
                  Premium |-> yesNo(resp.decoded.Response.Premium),
                  Price |-> Str(TrimSpace(resp.decoded.Response.Price)),
                  RegularPrice |-> Str(TrimSpace(resp.decoded.Response.RegularPrice)),
                  Currency |-> "",
                  MinDuration |-> resp.decoded.Response.MinDuration,
                  FirstYearPromo |-> yesNo(resp.decoded.Response.FirstYearPromo),
                  Limits |-> parseLimits(resp.decoded.Limits)],
          err |-> Nil]

\* The answers with a decoded body whose limits give the delay per (0: none).
WithDelay(per) ==
    {r \in PorkbunResponses :
        /\ r.valid /\ parseLimits(r.decoded.Limits) # NoLimits
        /\ perRequest(parseLimits(r.decoded.Limits)[1]) = per}

\* c.dynamicMinDelay after CheckDomain decoded ret.
afterResponse(dynamicMinDelay, ret) ==
    IF ret.err = Nil /\ ret.dc.Limits # NoLimits
    THEN updateDynamicDelay(dynamicMinDelay, ret.dc.Limits[1])
    ELSE dynamicMinDelay

\* A throttle that never makes a request wait.
throttle_unpaced(c, t) == [scheduled |-> t, nextRequestAt |-> t]

\* throttle under c.mu at time t: [scheduled, nextRequestAt].
throttle(c, t) ==
    LET minDelay  == IF c.dynamicMinDelay > c.opts.MinDelay THEN c.dynamicMinDelay
                     ELSE c.opts.MinDelay
        scheduled == IF t < c.nextRequestAt THEN c.nextRequestAt ELSE t
    IN  [scheduled |-> scheduled, nextRequestAt |-> scheduled + minDelay]

\* ------------------------------------------ cmd/dothuntcli: enrichWithRegistrar

\* The zero values of Result's registrar group.
ZeroRegistrar ==
    [Registrar |-> "", Buyable |-> NilBool, Premium |-> NilBool, Price |-> "",
     RegularPrice |-> "", Currency |-> "", MinDuration |-> 0, FirstYearPromo |-> NilBool,
     RegistrarLimits |-> NoLimits, RegistrarError |-> ""]

\* reg.Name().
RegistrarName == "porkbun"

\* What reg.CheckDomain can return: [dc, err].
CheckDomainReturns ==
    { [dc |-> ZeroDomainCheck, err |-> "porkbun: http 500: oops"],
      [dc |-> ZeroDomainCheck, err |-> Nil],
      [dc |-> [Buyable |-> TRUE, Premium |-> FALSE, Price |-> "9.73",
               RegularPrice |-> "11.82", Currency |-> "USD", MinDuration |-> 1,
               FirstYearPromo |-> TRUE,
               Limits |-> <<[TTLSeconds |-> Int64(10), Limit |-> Int64(1), Used |-> 1,
                             NaturalLanguage |-> "1 out of 1 checks within 10 seconds used"]>>],
       err |-> Nil] }

\* The predicates newCheckCmd and newSearchCmd hand over, and none.
shouldCheck(pred, r) ==
    CASE pred = "check"  -> r.Status = StatusAvailable \/ r.Status = StatusUnknown
      [] pred = "search" -> r.Status = StatusAvailable
      [] OTHER           -> TRUE

\* A producer that leaves the choice to the predicate alone.
selected_predicateOnly(pred, r) == shouldCheck(pred, r)

\* The producer's test of results[i]: not skipped.
selected(pred, r) == ~(r.Domain = <<>> \/ r.Error # "") /\ shouldCheck(pred, r)

\* A worker that also reports a failed call in the Result's error.
enriched_asError(r, ret) ==
    IF ret.err # Nil
    THEN [r EXCEPT !.Registrar = RegistrarName, !.RegistrarError = ret.err, !.Error = ret.err]
    ELSE [r EXCEPT !.Registrar = RegistrarName,
                   !.Buyable = boolPtr(ret.dc.Buyable), !.Premium = boolPtr(ret.dc.Premium),
                   !.Price = ret.dc.Price, !.RegularPrice = ret.dc.RegularPrice,
                   !.Currency = ret.dc.Currency, !.MinDuration = ret.dc.MinDuration,
                   !.FirstYearPromo = boolPtr(ret.dc.FirstYearPromo),
                   !.RegistrarLimits = ret.dc.Limits, !.RegistrarError = ""]

\* A worker that clears the price fields when the call fails.
enriched_clearing(r, ret) ==
    IF ret.err # Nil
    THEN [r EXCEPT !.Registrar = RegistrarName, !.RegistrarError = ret.err,
                   !.Buyable = boolPtr(FALSE), !.Price = "0"]
    ELSE [r EXCEPT !.Registrar = RegistrarName,
                   !.Buyable = boolPtr(ret.dc.Buyable), !.Premium = boolPtr(ret.dc.Premium),
                   !.Price = ret.dc.Price, !.RegularPrice = ret.dc.RegularPrice,
                   !.Currency = ret.dc.Currency, !.MinDuration = ret.dc.MinDuration,
                   !.FirstYearPromo = boolPtr(ret.dc.FirstYearPromo),
                   !.RegistrarLimits = ret.dc.Limits, !.RegistrarError = ""]

\* The worker's writes to r after CheckDomain returned ret.
enriched(r, ret) ==
    IF ret.err # Nil
    THEN [r EXCEPT !.Registrar = RegistrarName, !.RegistrarError = ret.err]
    ELSE [r EXCEPT !.Registrar = RegistrarName,
                   !.Buyable = boolPtr(ret.dc.Buyable), !.Premium = boolPtr(ret.dc.Premium),
                   !.Price = ret.dc.Price, !.RegularPrice = ret.dc.RegularPrice,
                   !.Currency = ret.dc.Currency, !.MinDuration = ret.dc.MinDuration,
                   !.FirstYearPromo = boolPtr(ret.dc.FirstYearPromo),
                   !.RegistrarLimits = ret.dc.Limits, !.RegistrarError = ""]

\* The Porkbun client and the goroutines in its CheckDomain, with the clock
\* and the context of the WHOIS client's variables.
VARIABLES
    pork,           \* the Client: opts, permits taken, nextRequestAt, dynamicMinDelay
    pcalls,         \* each goroutine's place in CheckDomain and its locals
    plog            \* history: calls begun, reservations, requests sent, returns

\* enrichWithRegistrar's call, run by the caller, a producer goroutine and
\* worker goroutines.
VARIABLES
    results,        \* the slice results, written in place
    enrich,         \* the arguments and the goroutines' places
    regCalls        \* history: the CheckDomain calls, [idx, domain, ret, before]

\* The locks of the two clients' caches and what the goroutines did with them.
VARIABLES
    rdapMu,         \* rdap Client.mu: 0 when free, else the worker holding it
    loads,          \* history: loadBootstrap's returns, [ok, failed] counts
    discoveries,    \* history: TLD -> its whois.iana.org queries that named a server
    sent,           \* history: the network requests dispatched
    atCancel        \* history: computed and prod.i when ctx was cancelled, else <<>>

syncVars == <<rdapMu, loads, discoveries, sent, atCancel>>
checkVars == <<inputs, opts, world, bootstrap, tldToServer, prod, jobsClosed, resultsClosed,
               wg, loc, outSlice, returned, trace, computed, arrivals, syncVars>>
callVars == <<call, retval>>
whoisVars == <<whoisOpts, now, cancelAt, serverState, caller, reserved, wlog>>
enrichVars == <<results, enrich, regCalls>>
porkVars == <<pork, pcalls, plog>>
\* One run of the program.
VARIABLES
    cli             \* the command line, run's place, its results, output and exit code

runVars == <<cli>>
regVars == <<enrichVars, porkVars, runVars>>
vars == <<checkVars, callVars, whoisVars, regVars>>

\* A worker goroutine blocked in "for j := range jobs".
IdleWorker ==
    [pc |-> "recv", idx |-> -1, input |-> <<>>, r |-> ZeroResult, ascii |-> <<>>,
     ev |-> NoEvidence, wev |-> NoWhoisEvidence, urls |-> <<>>, k |-> 0, lastErr |-> Nil,
     server |-> ""]

\* A lookup made for an input: op names it, ev is the Evidence it returned and
\* code the HTTP status the server answered with (0 when there is none).
Event(op, ev, code) == [op |-> op, ev |-> ev, code |-> code]

Lists(pool, n) == UNION {[1..k -> pool] : k \in 0..n}

\* The state when CheckDomains has started its goroutines.
InitWith(lists, optset, worlds) ==
    /\ inputs \in lists
    /\ opts \in optset
    /\ world \in worlds
    /\ bootstrap = NoBootstrap
    /\ tldToServer = <<>>
    /\ prod = [pc |-> "send", i |-> 0]
    /\ jobsClosed = FALSE
    /\ resultsClosed = FALSE
    /\ wg = Workers(opts)
    /\ loc = [w \in 1..Workers(opts) |-> IdleWorker]
    /\ outSlice = [i \in 1..Len(inputs) |-> ZeroResult]
    /\ returned = FALSE
    /\ trace = [i \in 1..Len(inputs) |-> <<>>]
    /\ computed = [i \in 1..Len(inputs) |-> ZeroResult]
    /\ arrivals = <<>>
    /\ rdapMu = 0
    /\ loads = [ok |-> 0, failed |-> 0]
    /\ discoveries = <<>>
    /\ sent = 0
    /\ atCancel = <<>>

\* A request made with ctx that is answered even when ctx is done.
Answered_ignoringCtx(answers, err) == answers

\* What a request made with ctx gets: one of answers, or err once ctx is done
\* (the request is then not dispatched).
Answered(answers, err) == IF cancelAt = -1 THEN answers ELSE {err}

\* The requests dispatched once one more is made with ctx.
Dispatched == IF cancelAt = -1 THEN sent + 1 ELSE sent

Log(w, e) == [trace EXCEPT ![loc[w].idx + 1] = Append(@, e)]

\* checkOne returns r to worker w: "r := c.checkOne(ctx, j.input)".
Return(w, r) ==
    /\ loc' = [loc EXCEPT ![w] = [IdleWorker EXCEPT !.pc = "send", !.idx = loc[w].idx, !.r = r]]
    /\ computed' = [computed EXCEPT ![loc[w].idx + 1] = r]

\* Producer: jobs <- job{idx, input}, received by worker w.
ProducerSend(w) ==
    /\ prod.pc = "send" /\ prod.i < Len(inputs)
    /\ loc[w].pc = "recv"
    /\ loc' = [loc EXCEPT ![w] = [IdleWorker EXCEPT !.pc = "checkOne", !.idx = prod.i,
                                                    !.input = inputs[prod.i + 1]]]
    /\ prod' = [prod EXCEPT !.i = @ + 1]
    /\ UNCHANGED <<inputs, opts, world, bootstrap, tldToServer, jobsClosed, resultsClosed,
                   wg, outSlice, returned, trace, computed, arrivals,
                   syncVars, callVars, whoisVars, regVars>>

\* Producer: close(jobs) after the last job.
ProducerClose ==
    /\ prod.pc = "send" /\ prod.i = Len(inputs)
    /\ jobsClosed' = TRUE
    /\ prod' = [prod EXCEPT !.pc = "wait"]
    /\ UNCHANGED <<inputs, opts, world, bootstrap, tldToServer, resultsClosed,
                   wg, loc, outSlice, returned, trace, computed, arrivals,
                   syncVars, callVars, whoisVars, regVars>>

\* A producer that does not wait for the workers.
ProducerWait_notWaiting ==
    /\ prod.pc = "wait"
    /\ prod' = [prod EXCEPT !.pc = "closeResults"]
    /\ UNCHANGED <<inputs, opts, world, bootstrap, tldToServer, jobsClosed, resultsClosed,
                   wg, loc, outSlice, returned, trace, computed, arrivals,
                   syncVars, callVars, whoisVars, regVars>>

\* Producer: wg.Wait() returns.
ProducerWait ==
    /\ prod.pc = "wait" /\ wg = 0
    /\ prod' = [prod EXCEPT !.pc = "closeResults"]
    /\ UNCHANGED <<inputs, opts, world, bootstrap, tldToServer, jobsClosed, resultsClosed,
                   wg, loc, outSlice, returned, trace, computed, arrivals,
                   syncVars, callVars, whoisVars, regVars>>

\* Producer: close(results).
ProducerCloseResults ==
    /\ prod.pc = "closeResults"
    /\ resultsClosed' = TRUE
    /\ prod' = [prod EXCEPT !.pc = "done"]
    /\ UNCHANGED <<inputs, opts, world, bootstrap, tldToServer, jobsClosed,
                   wg, loc, outSlice, returned, trace, computed, arrivals,
                   syncVars, callVars, whoisVars, regVars>>

\* Worker w: range over the closed jobs channel ends; deferred wg.Done().
WorkerExit(w) ==
    /\ loc[w].pc = "recv" /\ jobsClosed
    /\ loc' = [loc EXCEPT ![w].pc = "done"]
    /\ wg' = wg - 1
    /\ UNCHANGED <<inputs, opts, world, bootstrap, tldToServer, prod, jobsClosed,
                   resultsClosed, outSlice, returned, trace, computed, arrivals,
                   syncVars, callVars, whoisVars, regVars>>

\* Worker w: checkOne up to the RDAP lookup (Normalize and the Result's names).
CheckOneStart(w) ==
    /\ loc[w].pc = "checkOne"
    /\ LET r == initialResult(loc[w].input)
           n == Normalize(loc[w].input)
       IN  IF ~n.ok
           THEN Return(w, invalidResult(r, loc[w].input, n.err))
           ELSE /\ loc' = [loc EXCEPT ![w].r = normalizedResult(r, n.ascii),
                                      ![w].ascii = n.ascii,
                                      ![w].pc = IF opts.RDAP THEN "rdap"
                                                ELSE IF whoisEnabled(opts) THEN "whois"
                                                ELSE "summary"]
                /\ UNCHANGED computed
    /\ UNCHANGED <<inputs, opts, world, bootstrap, tldToServer, prod, jobsClosed,
                   resultsClosed, wg, outSlice, returned, trace, arrivals,
                   syncVars, callVars, whoisVars, regVars>>

\* The Evidence rdap LookupDomain returns before its loop, NoEvidence when it
\* goes on to the loop over urls.
rdapEarlyEvidence(bs, urls) ==
    IF ~bs.ok THEN rdapBootstrapUnavailable(bs.err)
    ELSE IF Len(urls) = 0 THEN rdapNoService
    ELSE NoEvidence

\* Worker w after getBootstrap returned bs: on to the loop, or to the return.
AfterBootstrap(w, bs) ==
    LET urls == urlsForTLD(bs.bs, lastLabel(loc[w].ascii))
        ev   == rdapEarlyEvidence(bs, urls)
    IN  IF ev # NoEvidence
        THEN [loc EXCEPT ![w].ev = ev, ![w].pc = "rdap_ret"]
        ELSE [loc EXCEPT ![w].urls = urls, ![w].k = 1, ![w].lastErr = Nil,
                         ![w].pc = "rdap_loop"]

\* An rdap LookupDomain whose getBootstrap does not wait for c.mu.
RdapLookupDomain_noLock(w) ==
    /\ loc[w].pc = "rdap"
    /\ IF lastLabel(loc[w].ascii) = <<>>
       THEN /\ loc' = [loc EXCEPT ![w].ev = rdapInvalidDomain, ![w].pc = "rdap_ret"]
            /\ UNCHANGED rdapMu
       ELSE IF bootstrap # NoBootstrap
       THEN /\ loc' = AfterBootstrap(w, getBootstrap(bootstrap, HTTPResponse(0)))
            /\ UNCHANGED rdapMu
       ELSE /\ loc' = [loc EXCEPT ![w].pc = "rdap_load"]
            /\ rdapMu' = w
    /\ trace' = Log(w, Event("rdap.LookupDomain", NoEvidence, 0))
    /\ UNCHANGED <<inputs, opts, world, bootstrap, tldToServer, prod, jobsClosed, resultsClosed,
                   wg, outSlice, returned, computed, arrivals,
                   loads, discoveries, sent, atCancel, callVars, whoisVars, regVars>>

\* Worker w: rdap LookupDomain up to its loop over the candidate base URLs, or
\* up to loadBootstrap when c.bootstrap is nil: getBootstrap's c.mu.Lock()
\* waits for the lock, which a loading goroutine holds until it returns.
RdapLookupDomain(w) ==
    /\ loc[w].pc = "rdap"
    /\ lastLabel(loc[w].ascii) = <<>> \/ rdapMu = 0
    /\ IF lastLabel(loc[w].ascii) = <<>>
       THEN /\ loc' = [loc EXCEPT ![w].ev = rdapInvalidDomain, ![w].pc = "rdap_ret"]
            /\ UNCHANGED rdapMu
       ELSE IF bootstrap # NoBootstrap
       THEN /\ loc' = AfterBootstrap(w, getBootstrap(bootstrap, HTTPResponse(0)))
            /\ UNCHANGED rdapMu
       ELSE /\ loc' = [loc EXCEPT ![w].pc = "rdap_load"]
            /\ rdapMu' = w
    /\ trace' = Log(w, Event("rdap.LookupDomain", NoEvidence, 0))
    /\ UNCHANGED <<inputs, opts, world, bootstrap, tldToServer, prod, jobsClosed, resultsClosed,
                   wg, outSlice, returned, computed, arrivals,
                   loads, discoveries, sent, atCancel, callVars, whoisVars, regVars>>

\* Worker w: getBootstrap's loadBootstrap returns, c.bootstrap is set when it
\* succeeded, and the deferred c.mu.Unlock() runs.
RdapLoadBootstrap(w) ==
    /\ loc[w].pc = "rdap_load"
    /\ \E resp \in Answered(world.boot, TransportError("context canceled")) :
         LET bs == getBootstrap(bootstrap, resp)
         IN  /\ bootstrap' = bs.cached
             /\ loads' = IF bs.ok THEN [loads EXCEPT !.ok = @ + 1]
                         ELSE [loads EXCEPT !.failed = @ + 1]
             /\ loc' = AfterBootstrap(w, bs)
    /\ rdapMu' = 0
    /\ sent' = Dispatched
    /\ UNCHANGED <<inputs, opts, world, tldToServer, prod, jobsClosed, resultsClosed,
                   wg, outSlice, returned, trace, computed, arrivals,
                   discoveries, atCancel, callVars, whoisVars, regVars>>

\* Worker w: one turn of rdap LookupDomain's loop (one lookupOne), or its end.
RdapLookupOne(w) ==
    /\ loc[w].pc = "rdap_loop"
    /\ IF loc[w].k > Len(loc[w].urls)
       THEN /\ loc' = [loc EXCEPT ![w].ev = rdapLookupFailed(loc[w].lastErr),
                                  ![w].urls = <<>>, ![w].k = 0, ![w].lastErr = Nil,
                                  ![w].pc = "rdap_ret"]
            /\ UNCHANGED <<trace, sent>>
       ELSE \E resp \in Answered(world.http, TransportError("context canceled")) :
              LET ev == lookupOne(loc[w].urls[loc[w].k], loc[w].ascii, resp)
              IN  /\ trace' = Log(w, Event("rdap.lookupOne", ev, resp.code))
                  /\ sent' = Dispatched
                  /\ loc' = IF ev.Status # "unknown"
                            THEN [loc EXCEPT ![w].ev = ev, ![w].urls = <<>>, ![w].k = 0,
                                             ![w].lastErr = Nil, ![w].pc = "rdap_ret"]
                            ELSE [loc EXCEPT ![w].lastErr = nextLastErr(@, ev),
                                             ![w].k = @ + 1]
    /\ UNCHANGED <<inputs, opts, world, bootstrap, tldToServer, prod, jobsClosed,
                   resultsClosed, wg, outSlice, returned, computed, arrivals,
                   rdapMu, loads, discoveries, atCancel, callVars, whoisVars, regVars>>

\* Worker w: checkOne takes the RDAP evidence.
CheckOneRdap(w) ==
    /\ loc[w].pc = "rdap_ret"
    /\ LET ev == loc[w].ev
           r  == recordRdap(loc[w].r, ev)
       IN  IF ev.Status = "available" THEN Return(w, rdapAvailable(r, ev))
           ELSE IF ev.Status = "taken" THEN Return(w, rdapTaken(r, ev))
           ELSE /\ loc' = [loc EXCEPT ![w].r = unknownDetail(r, ev), ![w].ev = NoEvidence,
                                      ![w].pc = IF whoisEnabled(opts) THEN "whois"
                                                ELSE "summary"]
                /\ UNCHANGED computed
    /\ trace' = Log(w, Event("rdap.return", loc[w].ev, 0))
    /\ UNCHANGED <<inputs, opts, world, bootstrap, tldToServer, prod, jobsClosed,
                   resultsClosed, wg, outSlice, returned, arrivals,
                   syncVars, callVars, whoisVars, regVars>>

\* serverForTLD's key of the TLD of worker w's domain.
TLDKey(w) == ToLower(TrimSpace(lastLabel(loc[w].ascii)))

\* c.tldToServer[tld] = server, whatever was stored for tld.
storeServer(cache, tld, server) ==
    [t \in DOMAIN cache \cup {tld} |-> IF t = tld THEN server ELSE cache[t]]

\* The count of tld's discoveries raised by one.
Discovered(tld) ==
    [t \in DOMAIN discoveries \cup {tld} |->
        (IF t \in DOMAIN discoveries THEN discoveries[t] ELSE 0) + (IF t = tld THEN 1 ELSE 0)]

\* Worker w: whois LookupDomain up to serverForTLD's look into c.tldToServer
\* under c.mu, which it unlocks before it queries whois.iana.org.
WhoisLookupDomain(w) ==
    /\ loc[w].pc = "whois"
    /\ LET srv == serverForTLD(tldToServer, lastLabel(loc[w].ascii), QueryError(""))
           l   == whoisLookupDomain(tldToServer, loc[w].ascii, QueryError(""), QueryError(""))
       IN  IF lastLabel(loc[w].ascii) = <<>>
           THEN /\ loc' = [loc EXCEPT ![w].wev = l.ev, ![w].pc = "whois_ret"]
                /\ trace' = Log(w, Event("whois.LookupDomain", l.ev, 0))
           ELSE IF srv.ok
           THEN /\ loc' = [loc EXCEPT ![w].server = srv.server, ![w].pc = "whois_query"]
                /\ UNCHANGED trace
           ELSE /\ loc' = [loc EXCEPT ![w].pc = "whois_iana"]
                /\ UNCHANGED trace
    /\ UNCHANGED <<inputs, opts, world, bootstrap, tldToServer, prod, jobsClosed, resultsClosed,
                   wg, outSlice, returned, computed, arrivals,
                   syncVars, callVars, whoisVars, regVars>>

\* Worker w: serverForTLD's query of whois.iana.org returns; the server it
\* names is stored under c.mu, without a second look into the map.
WhoisDiscover(w) ==
    /\ loc[w].pc = "whois_iana"
    /\ \E iana \in Answered(world.iana, QueryError("context canceled")) :
         LET srv == serverForTLD(<<>>, lastLabel(loc[w].ascii), iana)
             l   == whoisLookupDomain(<<>>, loc[w].ascii, iana, QueryError(""))
         IN  IF srv.ok
             THEN /\ tldToServer' = storeServer(tldToServer, TLDKey(w), srv.server)
                  /\ discoveries' = Discovered(TLDKey(w))
                  /\ loc' = [loc EXCEPT ![w].server = srv.server, ![w].pc = "whois_query"]
                  /\ UNCHANGED trace
             ELSE /\ loc' = [loc EXCEPT ![w].wev = l.ev, ![w].pc = "whois_ret"]
                  /\ trace' = Log(w, Event("whois.LookupDomain", l.ev, 0))
                  /\ UNCHANGED <<tldToServer, discoveries>>
    /\ sent' = Dispatched
    /\ UNCHANGED <<inputs, opts, world, bootstrap, prod, jobsClosed, resultsClosed,
                   wg, outSlice, returned, computed, arrivals,
                   rdapMu, loads, atCancel, callVars, whoisVars, regVars>>

\* Worker w: whois LookupDomain's c.query of the TLD's server and classify.
WhoisQuery(w) ==
    /\ loc[w].pc = "whois_query"
    /\ \E reply \in Answered(world.whois, QueryError("context canceled")) :
         LET l == whoisLookupDomain(storeServer(<<>>, TLDKey(w), loc[w].server),
                                    loc[w].ascii, QueryError(""), reply)
         IN  /\ loc' = [loc EXCEPT ![w].wev = l.ev, ![w].server = "", ![w].pc = "whois_ret"]
             /\ trace' = Log(w, Event("whois.LookupDomain", l.ev, 0))
    /\ sent' = Dispatched
    /\ UNCHANGED <<inputs, opts, world, bootstrap, tldToServer, prod, jobsClosed, resultsClosed,
                   wg, outSlice, returned, computed, arrivals,
                   rdapMu, loads, discoveries, atCancel, callVars, whoisVars, regVars>>

\* Worker w: checkOne takes the WHOIS evidence.
CheckOneWhois(w) ==
    /\ loc[w].pc = "whois_ret"
    /\ LET ev == loc[w].wev
           r  == recordWhois(loc[w].r, ev)
       IN  IF ev.Status = "available" THEN Return(w, whoisAvailable(r, ev))
           ELSE IF ev.Status = "taken" THEN Return(w, whoisTaken(r, ev))
           ELSE /\ loc' = [loc EXCEPT ![w].r = unknownDetail(r, ev),
                                      ![w].wev = NoWhoisEvidence, ![w].pc = "summary"]
                /\ UNCHANGED computed
    /\ UNCHANGED <<inputs, opts, world, bootstrap, tldToServer, prod, jobsClosed,
                   resultsClosed, wg, outSlice, returned, trace, arrivals,
                   syncVars, callVars, whoisVars, regVars>>

\* Worker w: checkOne's unknown exit.
CheckOneSummary(w) ==
    /\ loc[w].pc = "summary"
    /\ Return(w, summaryResult(loc[w].r))
    /\ UNCHANGED <<inputs, opts, world, bootstrap, tldToServer, prod, jobsClosed,
                   resultsClosed, wg, outSlice, returned, trace, arrivals,
                   syncVars, callVars, whoisVars, regVars>>

\* Worker w: results <- out{idx, res}, received by the collector.
CollectorRecv(w) ==
    /\ loc[w].pc = "send" /\ ~returned
    /\ outSlice' = storeResult(outSlice, [idx |-> loc[w].idx, res |-> loc[w].r])
    /\ loc' = [loc EXCEPT ![w] = IdleWorker]
    /\ arrivals' = Append(arrivals, loc[w].idx)
    /\ UNCHANGED <<inputs, opts, world, bootstrap, tldToServer, prod, jobsClosed,
                   resultsClosed, wg, returned, trace, computed,
                   syncVars, callVars, whoisVars, regVars>>

\* Collector: range over the closed results channel ends; return outSlice.
CollectorReturn ==
    /\ resultsClosed /\ ~returned
    /\ returned' = TRUE
    /\ UNCHANGED <<inputs, opts, world, bootstrap, tldToServer, prod, jobsClosed,
                   resultsClosed, wg, loc, outSlice, trace, computed, arrivals,
                   syncVars, callVars, whoisVars, regVars>>

\* The caller's ctx is cancelled while CheckDomains runs.
CheckCancel ==
    /\ caller = <<>> /\ world.cancel /\ cancelAt = -1 /\ ~returned
    /\ cancelAt' = now
    /\ atCancel' = [computed |-> computed, started |-> prod.i]
    /\ UNCHANGED <<inputs, opts, world, bootstrap, tldToServer, prod, jobsClosed, resultsClosed,
                   wg, loc, outSlice, returned, trace, computed, arrivals,
                   rdapMu, loads, discoveries, sent, callVars,
                   whoisOpts, now, serverState, caller, reserved, wlog, regVars>>

WorkerStep(w) ==
    \/ ProducerSend(w)
    \/ CheckOneStart(w)
    \/ RdapLookupDomain(w)
    \/ RdapLoadBootstrap(w)
    \/ RdapLookupOne(w)
    \/ CheckOneRdap(w)
    \/ WhoisLookupDomain(w)
    \/ WhoisDiscover(w)
    \/ WhoisQuery(w)
    \/ CheckOneWhois(w)
    \/ CheckOneSummary(w)
    \/ CollectorRecv(w)
    \/ WorkerExit(w)

Next ==
    \/ \E w \in DOMAIN loc : WorkerStep(w)
    \/ ProducerClose
    \/ ProducerWait
    \/ ProducerCloseResults
    \/ CollectorReturn


\* ------------------------------------------- internal/whois: Client.query

\* Durations and times are in milliseconds.

\* whois.NewClient: c.opts for the Options o.
NewClient(o) ==
    [Timeout                |-> IF o.Timeout = 0 THEN 8000 ELSE o.Timeout,
     MaxConcurrentPerServer |-> IF o.MaxConcurrentPerServer <= 0 THEN 1
                                ELSE o.MaxConcurrentPerServer,
     MinDelayPerServer      |-> IF o.MinDelayPerServer <= 0 THEN 250 ELSE o.MinDelayPerServer,
     Retries                |-> IF o.Retries = 0 THEN 2
                                ELSE IF o.Retries < 0 THEN 0 ELSE o.Retries,
     Backoff                |-> IF o.Backoff <= 0 THEN 250 ELSE o.Backoff]

\* An error value: kind is "canceled" (errors.Is context.Canceled), "deadline"
\* (errors.Is context.DeadlineExceeded), "net.timeout" (a net.Error whose
\* Timeout or Temporary is true), "net" (any other net.Error) or "plain".
Error(msg, kind) == [msg |-> msg, kind |-> kind]

Canceled == Error("context canceled", "canceled")

\* An isRetryable that retries whatever the error.
isRetryable_always(err) == TRUE

\* isRetryable; a plain error is retried when its text contains "connection
\* reset", "broken pipe" or "unexpected eof".
isRetryable(err) ==
    CASE err.kind = "canceled"    -> FALSE
      [] err.kind = "deadline"    -> TRUE
      [] err.kind = "net.timeout" -> TRUE
      [] err.kind = "net"         -> FALSE
      [] OTHER -> err.msg \in {"read: connection reset by peer", "write: broken pipe",
                               "unexpected EOF"}

\* A loop that runs once more than it should.
attempts_oneMore(o) == o.Retries + 2

\* query: the number of attempts.
attempts(o) == IF o.Retries + 1 < 1 THEN 1 ELSE o.Retries + 1

\* query: minDuration(backoff*2, 2*time.Second)
nextBackoff(backoff) == IF backoff * 2 < 2000 THEN backoff * 2 ELSE 2000

\* stateForServer: c.serverState with the state of server in it.
stateForServer(ss, server) ==
    IF server \in DOMAIN ss THEN ss
    ELSE [s \in DOMAIN ss \cup {server} |->
            IF s = server THEN [sem |-> 0, next |-> 0] ELSE ss[s]]

\* A reservation that starts at the current time whatever st.next is.
reserve_now(st, t, minDelay) == [st EXCEPT !.next = t + minDelay]

\* queryOnce under st.mu: scheduled is st.next - minDelay afterwards.
reserve(st, t, minDelay) ==
    [st EXCEPT !.next = (IF t < st.next THEN st.next ELSE t) + minDelay]

\* A deferred release that is skipped.
release_leaked(st) == st

\* queryOnce's deferred "<-st.sem".
release(st) == [st EXCEPT !.sem = @ - 1]

\* A timer that fires without waiting for its time.
TimerFirst_early(t) == cancelAt = -1 \/ cancelAt >= t

\* A timer set for time t fires before ctx is done, or together with it.
TimerFirst(t) == now >= t /\ (cancelAt = -1 \/ cancelAt >= t)

\* ctx is done before a timer set for time t fires, or together with it.
DoneFirst(t) == cancelAt # -1 /\ cancelAt <= t

\* A goroutine that has just called Client.query(ctx, server, q).
NewCaller(server) ==
    [pc |-> "acquire", server |-> server, attempt |-> 0,
     backoff |-> NewClient(whoisOpts).Backoff, timer |-> 0, err |-> <<>>]

\* A step of an attempt, for wlog: v is the scheduled time of "reserve", the
\* deadline of "dial", the error of "return", the duration of "sleep".
Step(step, v) == [step |-> step, at |-> now, v |-> v]

\* query after queryOnce returned err (<<>> for nil) to goroutine c, with
\* the steps of the attempt that end added to wlog.
AfterAttempt(c, err, steps) ==
    IF err = <<>>
    THEN /\ caller' = [caller EXCEPT ![c].pc = "done", ![c].err = <<>>]
         /\ wlog' = [wlog EXCEPT ![c] = @ \o steps \o <<Step("return", <<>>)>>]
    ELSE IF \/ caller[c].attempt = attempts(NewClient(whoisOpts)) - 1
            \/ ~isRetryable(err[1])
    THEN /\ caller' = [caller EXCEPT ![c].pc = "done", ![c].err = err]
         /\ wlog' = [wlog EXCEPT ![c] = @ \o steps \o <<Step("return", err)>>]
    ELSE /\ caller' = [caller EXCEPT ![c].pc = "backoff", ![c].err = err,
                                     ![c].timer = now + caller[c].backoff]
         /\ wlog' = [wlog EXCEPT ![c] = @ \o steps \o <<Step("return", err),
                                                       Step("sleep", caller[c].backoff)>>]

\* No goroutine is in Client.query.
NoQuery ==
    /\ whoisOpts = <<>> /\ now = 0 /\ cancelAt = -1 /\ serverState = <<>>
    /\ caller = <<>> /\ reserved = <<>> /\ wlog = <<>>

\* Goroutine c, queryOnce: stateForServer, then "st.sem <- struct{}{}".
Acquire(c) ==
    /\ caller[c].pc = "acquire"
    /\ stateForServer(serverState, caller[c].server)[caller[c].server].sem
         < NewClient(whoisOpts).MaxConcurrentPerServer
    /\ serverState' = [stateForServer(serverState, caller[c].server)
                          EXCEPT ![caller[c].server].sem = @ + 1]
    /\ caller' = [caller EXCEPT ![c].pc = "reserve"]
    /\ wlog' = [wlog EXCEPT ![c] = Append(@, Step("acquire", <<>>))]
    /\ UNCHANGED <<whoisOpts, now, cancelAt, reserved, checkVars, callVars, regVars>>

\* Goroutine c, queryOnce: stateForServer, then "<-ctx.Done()" instead of a permit.
AcquireCancelled(c) ==
    /\ caller[c].pc = "acquire"
    /\ cancelAt # -1
    /\ serverState' = stateForServer(serverState, caller[c].server)
    /\ AfterAttempt(c, <<Canceled>>, <<>>)
    /\ UNCHANGED <<whoisOpts, now, cancelAt, reserved, checkVars, callVars, regVars>>

\* Goroutine c, queryOnce: the reservation under st.mu, and sleepUntil's
\* immediate return when the scheduled time is not in the future.
Reserve(c) ==
    /\ caller[c].pc = "reserve"
    /\ LET d  == NewClient(whoisOpts).MinDelayPerServer
           st == reserve(serverState[caller[c].server], now, d)
       IN  /\ serverState' = [serverState EXCEPT ![caller[c].server] = st]
           /\ reserved' = [reserved EXCEPT ![caller[c].server] = Append(@, st.next - d)]
           /\ caller' = [caller EXCEPT ![c].timer = st.next - d,
                                       ![c].pc = IF st.next - d > now THEN "pace" ELSE "dial"]
           /\ wlog' = [wlog EXCEPT ![c] = Append(@, Step("reserve", st.next - d))]
    /\ UNCHANGED <<whoisOpts, now, cancelAt, checkVars, callVars, regVars>>

\* Goroutine c, queryOnce: sleepUntil's timer fires.
PaceDone(c) ==
    /\ caller[c].pc = "pace"
    /\ TimerFirst(caller[c].timer)
    /\ caller' = [caller EXCEPT ![c].pc = "dial"]
    /\ wlog' = [wlog EXCEPT ![c] = Append(@, Step("wake", <<>>))]
    /\ UNCHANGED <<whoisOpts, now, cancelAt, serverState, reserved, checkVars, callVars, regVars>>

\* Goroutine c, queryOnce: sleepUntil returns ctx.Err(); the permit goes back.
PaceCancelled(c) ==
    /\ caller[c].pc = "pace"
    /\ DoneFirst(caller[c].timer)
    /\ serverState' = [serverState EXCEPT ![caller[c].server] = release(@)]
    /\ AfterAttempt(c, <<Canceled>>, <<>>)
    /\ UNCHANGED <<whoisOpts, now, cancelAt, reserved, checkVars, callVars, regVars>>

\* Goroutine c, queryOnce: context.WithTimeout and DialContext start; with
\* ctx done already the dial fails at once.
Dial(c) ==
    /\ caller[c].pc = "dial"
    /\ IF cancelAt # -1
       THEN /\ serverState' = [serverState EXCEPT ![caller[c].server] = release(@)]
            /\ AfterAttempt(c, <<Canceled>>,
                            <<Step("dial", now + NewClient(whoisOpts).Timeout)>>)
       ELSE /\ caller' = [caller EXCEPT ![c].pc = "io",
                                        ![c].timer = now + NewClient(whoisOpts).Timeout]
            /\ wlog' = [wlog EXCEPT ![c] =
                            Append(@, Step("dial", now + NewClient(whoisOpts).Timeout))]
            /\ UNCHANGED serverState
    /\ UNCHANGED <<whoisOpts, now, cancelAt, reserved, checkVars, callVars, regVars>>

\* Goroutine c, queryOnce: dial, write and read end with the body or an
\* error; the permit goes back. The time the exchange takes is left out.
AttemptEnd(c) ==
    /\ caller[c].pc = "io"
    /\ serverState' = [serverState EXCEPT ![caller[c].server] = release(@)]
    /\ \E err \in world.errs \cup (IF cancelAt # -1 THEN {<<Canceled>>} ELSE {}) :
         AfterAttempt(c, err, <<>>)
    /\ UNCHANGED <<whoisOpts, now, cancelAt, reserved, checkVars, callVars, regVars>>

\* Goroutine c, query: the backoff timer fires; the next attempt.
BackoffDone(c) ==
    /\ caller[c].pc = "backoff"
    /\ TimerFirst(caller[c].timer)
    /\ caller' = [caller EXCEPT ![c].pc = "acquire", ![c].attempt = @ + 1,
                                ![c].backoff = nextBackoff(@)]
    /\ wlog' = [wlog EXCEPT ![c] = Append(@, Step("wake", <<>>))]
    /\ UNCHANGED <<whoisOpts, now, cancelAt, serverState, reserved, checkVars, callVars, regVars>>

\* Goroutine c, query: sleepWithContext returns ctx.Err(), and so does query.
BackoffCancelled(c) ==
    /\ caller[c].pc = "backoff"
    /\ DoneFirst(caller[c].timer)
    /\ caller' = [caller EXCEPT ![c].pc = "done", ![c].err = <<Canceled>>]
    /\ wlog' = [wlog EXCEPT ![c] = Append(@, Step("interrupted", <<Canceled>>))]
    /\ UNCHANGED <<whoisOpts, now, cancelAt, serverState, reserved, checkVars, callVars, regVars>>

\* The context is cancelled.
Cancel ==
    /\ caller # <<>> /\ world.cancel /\ cancelAt = -1
    /\ cancelAt' = now
    /\ UNCHANGED <<whoisOpts, now, serverState, caller, reserved, wlog, checkVars, callVars, regVars>>

\* Time passes until a pending timer's time.
Tick ==
    /\ \E c \in DOMAIN caller :
         /\ caller[c].pc \in {"pace", "backoff"}
         /\ caller[c].timer > now /\ caller[c].timer <= MaxNow
         /\ now' = caller[c].timer
    /\ UNCHANGED <<whoisOpts, cancelAt, serverState, caller, reserved, wlog, checkVars, callVars, regVars>>

NextWhois ==
    \/ \E c \in DOMAIN caller : Acquire(c)
    \/ \E c \in DOMAIN caller : AcquireCancelled(c)
    \/ \E c \in DOMAIN caller : Reserve(c)
    \/ \E c \in DOMAIN caller : PaceDone(c)
    \/ \E c \in DOMAIN caller : PaceCancelled(c)
    \/ \E c \in DOMAIN caller : Dial(c)
    \/ \E c \in DOMAIN caller : AttemptEnd(c)
    \/ \E c \in DOMAIN caller : BackoffDone(c)
    \/ \E c \in DOMAIN caller : BackoffCancelled(c)
    \/ Cancel
    \/ Tick


\* --------------------------------------------------------- internal/generate

\* generate.New: the defaults of MaxLabels and MinTokenLen.
New(o) ==
    [o EXCEPT !.MaxLabels = IF o.MaxLabels <= 0 THEN 50 ELSE o.MaxLabels,
              !.MinTokenLen = IF o.MinTokenLen <= 0 THEN 2 ELSE o.MinTokenLen]

\* The bytes in the order Go's string comparison gives them.
ByteOrder ==
    <<"-", ".", "0", "1", "2", "3", "4", "5", "6", "7", "8", "9",
      "a", "b", "c", "d", "e", "f", "g", "h", "i", "j", "k", "l", "m",
      "n", "o", "p", "q", "r", "s", "t", "u", "v", "w", "x", "y", "z">>

byteRank(c) == CHOOSE i \in DOMAIN ByteOrder : ByteOrder[i] = c

\* Go's a < b on strings over the bytes of ByteOrder.
StringLess(a, b) ==
    \E i \in 1..(Len(b)) :
        /\ i <= Len(a) + 1
        /\ SubSeq(a, 1, i - 1) = SubSeq(b, 1, i - 1)
        /\ i = Len(a) + 1 \/ byteRank(a[i]) < byteRank(b[i])

\* strings.Join.
RECURSIVE Join(_, _)
Join(elems, sep) ==
    IF elems = <<>> THEN <<>>
    ELSE IF Len(elems) = 1 THEN elems[1]
    ELSE elems[1] \o sep \o Join(Tail(elems), sep)

\* The sequences of a sequence of sequences, one after the other.
RECURSIVE Flatten(_)
Flatten(ss) ==
    IF ss = <<>> THEN <<>>
    ELSE IF Len(ss) = 1 THEN ss[1]
    ELSE Flatten(SubSeq(ss, 1, Len(ss) \div 2)) \o Flatten(SubSeq(ss, Len(ss) \div 2 + 1, Len(ss)))

\* tokenize: the maximal runs of a-z and 0-9 in the lower-cased s that are at
\* least minLen long, in their order.
tokenize(s, minLen) ==
    LET t         == ToLower(s)
        alnum(i)  == t[i] \in LowerLetters \cup Digits
        starts    == {i \in 1..Len(t) : alnum(i) /\ (i = 1 \/ ~alnum(i - 1))}
        endOf(i)  == CHOOSE j \in i..Len(t) :
                         /\ \A k \in i..j : alnum(k)
                         /\ j = Len(t) \/ ~alnum(j + 1)
        nth(k)    == CHOOSE i \in starts : Cardinality({j \in starts : j < i}) = k - 1
        runs      == [k \in 1..Cardinality(starts) |-> SubSeq(t, nth(k), endOf(nth(k)))]
        long(run) == Len(run) >= minLen
    IN  SelectSeq(runs, long)

\* The first occurrence of every element of seq, in order.
RECURSIVE dedupe(_, _)
dedupe(seq, seen) ==
    IF seq = <<>> THEN <<>>
    ELSE IF Head(seq) \in seen THEN dedupe(Tail(seq), seen)
    ELSE <<Head(seq)>> \o dedupe(Tail(seq), seen \cup {Head(seq)})

\* sequences: the phrase, its 2- and 3-grams and, for 3 to 6 tokens, the
\* phrase without one token; without repetitions.
sequences(tokens) ==
    LET n        == Len(tokens)
        grams(k) == IF n < k THEN <<>>
                    ELSE [i \in 1..(n - k + 1) |-> SubSeq(tokens, i, i + k - 1)]
        dropped  == IF n >= 3 /\ n <= 6
                    THEN [d \in 1..n |-> SubSeq(tokens, 1, d - 1) \o SubSeq(tokens, d + 1, n)]
                    ELSE <<>>
    IN  IF n = 0 THEN <<>>
        ELSE dedupe(<<tokens>> \o grams(2) \o grams(3) \o dropped, {})

\* The closure rec of expandTokens and expandKI: the first 16 choices of one
\* alternative per token, the first token varying slowest.
RECURSIVE choices(_)
choices(alts) ==
    IF alts = <<>> THEN << <<>> >>
    ELSE LET rest == choices(Tail(alts))
             all  == Flatten([v \in 1..Len(Head(alts)) |->
                                 [r \in 1..Len(rest) |-> <<Head(alts)[v]>> \o rest[r]]])
         IN  SubSeq(all, 1, IF Len(all) > 16 THEN 16 ELSE Len(all))

engineering == <<"e", "n", "g", "i", "n", "e", "e", "r", "i", "n", "g">>
engineer == <<"e", "n", "g", "i", "n", "e", "e", "r">>
eng == <<"e", "n", "g">>
agentic == <<"a", "g", "e", "n", "t", "i", "c">>
agent == <<"a", "g", "e", "n", "t">>
ki == <<"k", "i">>
ai == <<"a", "i">>

expandTokens(tokens) ==
    choices([i \in 1..Len(tokens) |->
                IF tokens[i] = engineering THEN <<engineering, eng>>
                ELSE IF tokens[i] = engineer THEN <<engineer, eng>>
                ELSE <<tokens[i]>>])

\* An expandKI that replaces nothing.
expandKI_baseOnly(tokens) == <<tokens>>

\* expandKI: the choices of ki and ai, those equal to the tokens first.
expandKI(tokens) ==
    LET out == choices([i \in 1..Len(tokens) |->
                           IF tokens[i] = ki THEN <<ki, ai>>
                           ELSE IF tokens[i] = ai THEN <<ai, ki>>
                           ELSE <<tokens[i]>>])
        same(c)  == c = tokens
        other(c) == c # tokens
    IN  SelectSeq(out, same) \o SelectSeq(out, other)

scoreBonus(t) ==
    IF t = agentic THEN 5 ELSE IF t = agent THEN 2 ELSE IF t \in {ki, ai} THEN 2 ELSE 0

RECURSIVE sumBonus(_)
sumBonus(tokens) ==
    IF tokens = <<>> THEN 0 ELSE scoreBonus(Head(tokens)) + sumBonus(Tail(tokens))

scoreLabel(tokens, label) ==
    LET score == 100
                 - (IF Len(tokens) > 2 THEN 5 * (Len(tokens) - 2) ELSE 0)
                 - 2 * Cardinality({i \in 1..Len(label) : label[i] = "-"})
                 - (IF Len(label) > 14 THEN (Len(label) - 14) \div 2 ELSE 0)
                 + sumBonus(tokens)
    IN  IF score < 1 THEN 1 ELSE IF score > 100 THEN 100 ELSE score

isValidLabel(label) ==
    /\ label # <<>> /\ Len(label) <= 63
    /\ label[1] # "-" /\ label[Len(label)] # "-"
    /\ \A i \in 1..Len(label) : label[i] \in LowerLetters \cup Digits \cup {"-"}

\* An add of Labels that keeps the score of the last derivation.
add_keepLast(seen, label, score) ==
    IF ~isValidLabel(TrimRight(TrimLeft(label, {"-"}), {"-"})) THEN seen
    ELSE [l \in DOMAIN seen \cup {TrimRight(TrimLeft(label, {"-"}), {"-"})} |->
             IF l = TrimRight(TrimLeft(label, {"-"}), {"-"}) THEN score ELSE seen[l]]

\* The closure add of Labels on the map seen.
add(seen, label, score) ==
    LET l == TrimRight(TrimLeft(label, {"-"}), {"-"})
    IN  IF ~isValidLabel(l) THEN seen
        ELSE IF l \in DOMAIN seen /\ seen[l] >= score THEN seen
        ELSE [x \in DOMAIN seen \cup {l} |-> IF x = l THEN score ELSE seen[x]]

\* The adds Labels makes for one expanded token sequence, in order.
adds(g, expanded) ==
    LET r == IF Len(expanded) = 2 THEN <<expanded[2], expanded[1]>> ELSE <<>>
    IN  << <<Join(expanded, <<"-">>), scoreLabel(expanded, Join(expanded, <<"-">>))>>,
           <<Join(expanded, <<>>), scoreLabel(expanded, Join(expanded, <<>>)) - 3>> >>
        \o (IF g.Reverse2 /\ Len(expanded) = 2
            THEN << <<Join(r, <<"-">>), scoreLabel(r, Join(r, <<"-">>)) - 10>>,
                    <<Join(r, <<>>), scoreLabel(r, Join(r, <<>>)) - 13>> >>
            ELSE <<>>)

\* The token sequences Labels works on, in order: every expansion of every
\* sequence of every combination.
expansionsOf(seqs) == Flatten([s \in 1..Len(seqs) |-> expandTokens(seqs[s])])

expansions(g, baseTokens) ==
    LET combos == IF g.ReplaceKI THEN expandKI(baseTokens) ELSE <<baseTokens>>
    IN  expansionsOf(Flatten([c \in 1..Len(combos) |-> sequences(combos[c])]))

\* All adds of Labels, in order.
addsOf(g, exps) == Flatten([e \in 1..Len(exps) |-> adds(g, exps[e])])

allAdds(g, baseTokens) == addsOf(g, expansions(g, baseTokens))

\* The map seen after the adds as[lo] to as[hi], one after the other.
RECURSIVE addFrom(_, _, _, _)
addFrom(seen, as, lo, hi) ==
    IF lo > hi \/ (DOMAIN seen = {} /\ as = <<>>) THEN seen
    ELSE IF lo = hi THEN add(seen, as[lo][1], as[lo][2])
    ELSE addFrom(addFrom(seen, as, lo, (lo + hi) \div 2), as, (lo + hi) \div 2 + 1, hi)

addAll(as) == addFrom(<<>>, as, 1, Len(as))

\* The less of Labels' sort.
less(a, b) ==
    IF a.Score # b.Score THEN a.Score > b.Score
    ELSE IF Len(a.Label) # Len(b.Label) THEN Len(a.Label) < Len(b.Label)
    ELSE StringLess(a.Label, b.Label)

\* sort.Slice on the candidates cs, which come from a map in any order:
\* before[c] of them are less than c, and c stands right after them.
placed(cs, before) == [k \in 1..Cardinality(cs) |-> CHOOSE c \in cs : before[c] = k - 1]

sortSlice(cs) == placed(cs, [c \in cs |-> Cardinality({d \in cs : less(d, c)})])

\* The candidates of the map seen.
candidates(seen) == {[Label |-> l, Score |-> seen[l]] : l \in DOMAIN seen}

\* The first MaxLabels candidates of out.
truncate(g, out) ==
    IF g.MaxLabels > 0 /\ Len(out) > g.MaxLabels THEN SubSeq(out, 1, g.MaxLabels) ELSE out

\* Generator.Labels with the options g of New.
Labels(g, phrase) ==
    IF TrimSpace(phrase) = <<>> \/ tokenize(TrimSpace(phrase), g.MinTokenLen) = <<>> THEN <<>>
    ELSE truncate(g, sortSlice(candidates(addAll(
             allAdds(g, tokenize(TrimSpace(phrase), g.MinTokenLen))))))


\* ------------------------------------ cmd/dothuntcli: enrichWithRegistrar, run

\* enrichWithRegistrar is not running.
NoEnrich == results = <<>> /\ enrich = <<>> /\ regCalls = <<>>

\* No Porkbun client.
NoPorkbun == pork = <<>> /\ pcalls = <<>> /\ plog = <<>>

\* No run of the program.
NoRun == cli = <<>>

\* A worker goroutine blocked in "for j := range jobs".
IdleEnricher == [pc |-> "recv", idx |-> -1]

\* enrichWithRegistrar up to wg.Wait: nothing to do without a registrar, else
\* the workers and the producer are started.
EnrichStart ==
    /\ enrich.pc = "start"
    /\ enrich' = IF ~enrich.reg THEN [enrich EXCEPT !.pc = "returned"]
                 ELSE [enrich EXCEPT !.pc = "wait",
                          !.w = [k \in 1..(IF enrich.concurrency <= 0 THEN 4
                                           ELSE enrich.concurrency) |-> IdleEnricher]]
    /\ UNCHANGED <<results, regCalls, checkVars, callVars, whoisVars, porkVars, runVars>>

\* Producer: results[i] is skipped.
EnrichSkip ==
    /\ enrich.pc = "wait" /\ enrich.prod.pc = "loop"
    /\ enrich.prod.i < Len(results)
    /\ ~selected(enrich.pred, results[enrich.prod.i + 1])
    /\ enrich' = [enrich EXCEPT !.prod.i = @ + 1]
    /\ UNCHANGED <<results, regCalls, checkVars, callVars, whoisVars, porkVars, runVars>>

\* Producer: "jobs <- job{idx: i, domain: r.Domain}", received by worker w.
EnrichSend(w) ==
    /\ enrich.pc = "wait" /\ enrich.prod.pc = "loop"
    /\ enrich.prod.i < Len(results)
    /\ selected(enrich.pred, results[enrich.prod.i + 1])
    /\ enrich.w[w].pc = "recv"
    /\ enrich' = [enrich EXCEPT !.prod.i = @ + 1,
                                !.w[w] = [pc |-> "call", idx |-> enrich.prod.i]]
    /\ UNCHANGED <<results, regCalls, checkVars, callVars, whoisVars, porkVars, runVars>>

\* Producer: close(jobs) after the loop.
EnrichClose ==
    /\ enrich.pc = "wait" /\ enrich.prod.pc = "loop"
    /\ enrich.prod.i = Len(results)
    /\ enrich' = [enrich EXCEPT !.prod.pc = "done", !.jobsClosed = TRUE]
    /\ UNCHANGED <<results, regCalls, checkVars, callVars, whoisVars, porkVars, runVars>>

\* Worker w: reg.CheckDomain returns and the worker writes results[j.idx].
EnrichCall(w) ==
    /\ enrich.pc = "wait" /\ enrich.w[w].pc = "call"
    /\ \E ret \in CheckDomainReturns :
         /\ regCalls' = Append(regCalls,
                [idx |-> enrich.w[w].idx, domain |-> results[enrich.w[w].idx + 1].Domain,
                 ret |-> ret, before |-> results[enrich.w[w].idx + 1]])
         /\ results' = [results EXCEPT ![enrich.w[w].idx + 1] = enriched(@, ret)]
    /\ enrich' = [enrich EXCEPT !.w[w] = IdleEnricher]
    /\ UNCHANGED <<checkVars, callVars, whoisVars, porkVars, runVars>>

\* Worker w: jobs is closed, the range loop ends and wg.Done runs.
EnrichWorkerDone(w) ==
    /\ enrich.pc = "wait" /\ enrich.w[w].pc = "recv" /\ enrich.jobsClosed
    /\ enrich' = [enrich EXCEPT !.w[w].pc = "done"]
    /\ UNCHANGED <<results, regCalls, checkVars, callVars, whoisVars, porkVars, runVars>>

\* wg.Wait returns and enrichWithRegistrar with it.
EnrichReturn ==
    /\ enrich.pc = "wait" /\ \A w \in DOMAIN enrich.w : enrich.w[w].pc = "done"
    /\ enrich' = [enrich EXCEPT !.pc = "returned"]
    /\ UNCHANGED <<results, regCalls, checkVars, callVars, whoisVars, porkVars, runVars>>

NextEnrich ==
    \/ EnrichStart
    \/ EnrichSkip
    \/ \E w \in DOMAIN enrich.w : EnrichSend(w)
    \/ EnrichClose
    \/ \E w \in DOMAIN enrich.w : EnrichCall(w)
    \/ \E w \in DOMAIN enrich.w : EnrichWorkerDone(w)
    \/ EnrichReturn

\* ------------------------------------- internal/registrar/porkbun: CheckDomain

\* A goroutine outside CheckDomain.
IdleCall ==
    [pc |-> "idle", scheduled |-> 0, timer |-> 0, resp |-> <<>>, ret |-> <<>>]

\* Goroutine g calls CheckDomain(ctx, domain): an empty domain is an error.
PorkbunCall(g) ==
    /\ pcalls[g].pc = "idle" /\ plog.calls < MaxChecks
    /\ \E domain \in world.domains :
         pcalls' = [pcalls EXCEPT ![g] =
            IF TrimSpace(domain) = <<>>
            THEN [IdleCall EXCEPT !.ret = <<[dc |-> ZeroDomainCheck,
                                             err |-> "porkbun: empty domain"]>>]
            ELSE [IdleCall EXCEPT !.pc = "acquire"]]
    /\ plog' = [plog EXCEPT !.calls = @ + 1]
    /\ UNCHANGED <<pork, checkVars, callVars, whoisVars, enrichVars, runVars>>

\* Goroutine g: "c.sem <- struct{}{}".
PorkbunAcquire(g) ==
    /\ pcalls[g].pc = "acquire"
    /\ pork.sem < pork.opts.MaxConcurrent
    /\ pork' = [pork EXCEPT !.sem = @ + 1]
    /\ pcalls' = [pcalls EXCEPT ![g].pc = "throttle"]
    /\ UNCHANGED <<plog, checkVars, callVars, whoisVars, enrichVars, runVars>>

\* Goroutine g: "<-ctx.Done()" instead of a permit.
PorkbunAcquireCancelled(g) ==
    /\ pcalls[g].pc = "acquire"
    /\ cancelAt # -1
    /\ pcalls' = [pcalls EXCEPT ![g] =
          [IdleCall EXCEPT !.ret = <<[dc |-> ZeroDomainCheck, err |-> Canceled.msg]>>]]
    /\ UNCHANGED <<pork, plog, checkVars, callVars, whoisVars, enrichVars, runVars>>

\* Goroutine g, throttle: the reservation under c.mu and the choice to wait.
PorkbunThrottle(g) ==
    /\ pcalls[g].pc = "throttle"
    /\ pork' = [pork EXCEPT !.nextRequestAt = throttle(pork, now).nextRequestAt]
    /\ pcalls' = [pcalls EXCEPT ![g].scheduled = throttle(pork, now).scheduled,
                                ![g].timer = throttle(pork, now).scheduled,
                                ![g].pc = IF throttle(pork, now).scheduled - now <= 0
                                          THEN "do" ELSE "wait"]
    /\ plog' = [plog EXCEPT !.reserved = Append(@,
                   [at |-> now, scheduled |-> throttle(pork, now).scheduled,
                    next |-> throttle(pork, now).nextRequestAt,
                    before |-> pork.nextRequestAt, minDelay |-> pork.opts.MinDelay,
                    dynamicMinDelay |-> pork.dynamicMinDelay])]
    /\ UNCHANGED <<checkVars, callVars, whoisVars, enrichVars, runVars>>

\* Goroutine g, throttle: the timer fires.
PorkbunWake(g) ==
    /\ pcalls[g].pc = "wait"
    /\ TimerFirst(pcalls[g].timer)
    /\ pcalls' = [pcalls EXCEPT ![g].pc = "do"]
    /\ UNCHANGED <<pork, plog, checkVars, callVars, whoisVars, enrichVars, runVars>>

\* Goroutine g, throttle returns ctx.Err(); the permit goes back.
PorkbunWaitCancelled(g) ==
    /\ pcalls[g].pc = "wait"
    /\ DoneFirst(pcalls[g].timer)
    /\ pork' = [pork EXCEPT !.sem = @ - 1]
    /\ pcalls' = [pcalls EXCEPT ![g] =
          [IdleCall EXCEPT !.ret = <<[dc |-> ZeroDomainCheck, err |-> Canceled.msg]>>]]
    /\ UNCHANGED <<plog, checkVars, callVars, whoisVars, enrichVars, runVars>>

\* Goroutine g: c.http.Do sends the request; the answer resp is on its way for
\* latency milliseconds.
PorkbunDo(g) ==
    /\ pcalls[g].pc = "do"
    /\ \E resp \in world.responses, latency \in world.latency :
         pcalls' = [pcalls EXCEPT ![g].pc = "inflight", ![g].resp = resp,
                                  ![g].timer = now + latency]
    /\ plog' = [plog EXCEPT !.sent = Append(@, [at |-> now, scheduled |-> pcalls[g].scheduled])]
    /\ UNCHANGED <<pork, checkVars, callVars, whoisVars, enrichVars, runVars>>

\* Goroutine g: the answer is there, CheckDomain decodes it, takes its limits
\* and returns; the permit goes back.
PorkbunReturn(g) ==
    /\ pcalls[g].pc = "inflight"
    /\ TimerFirst(pcalls[g].timer)
    /\ pork' = [pork EXCEPT !.sem = @ - 1,
                            !.dynamicMinDelay = afterResponse(@, decodeResponse(pcalls[g].resp))]
    /\ pcalls' = [pcalls EXCEPT ![g] = [IdleCall EXCEPT !.ret = <<decodeResponse(pcalls[g].resp)>>]]
    /\ plog' = [plog EXCEPT !.returned = Append(@,
                   [resp |-> pcalls[g].resp, ret |-> decodeResponse(pcalls[g].resp),
                    before |-> pork.dynamicMinDelay,
                    after |-> afterResponse(pork.dynamicMinDelay, decodeResponse(pcalls[g].resp))])]
    /\ UNCHANGED <<checkVars, callVars, whoisVars, enrichVars, runVars>>

\* Goroutine g: ctx is done while the request is out, c.http.Do returns its
\* error; the permit goes back.
PorkbunAborted(g) ==
    /\ pcalls[g].pc = "inflight"
    /\ DoneFirst(pcalls[g].timer)
    /\ pork' = [pork EXCEPT !.sem = @ - 1]
    /\ pcalls' = [pcalls EXCEPT ![g] =
          [IdleCall EXCEPT !.ret = <<[dc |-> ZeroDomainCheck,
                                      err |-> "Post \"https://api.porkbun.com/api/json/v3/domain/checkDomain/a.de\": " \o Canceled.msg]>>]]
    /\ plog' = [plog EXCEPT !.returned = Append(@,
                   [resp |-> <<>>, ret |-> pcalls'[g].ret[1],
                    before |-> pork.dynamicMinDelay, after |-> pork.dynamicMinDelay])]
    /\ UNCHANGED <<checkVars, callVars, whoisVars, enrichVars, runVars>>

\* ctx is cancelled.
PorkbunCancel ==
    /\ world.cancel /\ cancelAt = -1
    /\ cancelAt' = now
    /\ UNCHANGED <<whoisOpts, now, serverState, caller, reserved, wlog, checkVars, callVars,
                   regVars>>

\* Time passes until a pending timer's or answer's time.
PorkbunTick ==
    /\ \E g \in DOMAIN pcalls :
         /\ pcalls[g].pc \in {"wait", "inflight"}
         /\ pcalls[g].timer > now /\ pcalls[g].timer <= MaxNow
         /\ now' = pcalls[g].timer
    /\ UNCHANGED <<whoisOpts, cancelAt, serverState, caller, reserved, wlog, checkVars,
                   callVars, regVars>>

NextPorkbun ==
    \/ \E g \in DOMAIN pcalls : PorkbunCall(g)
    \/ \E g \in DOMAIN pcalls : PorkbunAcquire(g)
    \/ \E g \in DOMAIN pcalls : PorkbunAcquireCancelled(g)
    \/ \E g \in DOMAIN pcalls : PorkbunThrottle(g)
    \/ \E g \in DOMAIN pcalls : PorkbunWake(g)
    \/ \E g \in DOMAIN pcalls : PorkbunWaitCancelled(g)
    \/ \E g \in DOMAIN pcalls : PorkbunDo(g)
    \/ \E g \in DOMAIN pcalls : PorkbunReturn(g)
    \/ \E g \in DOMAIN pcalls : PorkbunAborted(g)
    \/ PorkbunCancel
    \/ PorkbunTick

\* ------------------------------------------------------ functions on their own

\* No function is called on its own.
NoCall == call = <<>> /\ retval = <<>>

\* CheckDomains is not running.
NoCheck ==
    InitWith({<<>>}, [RDAP : {FALSE}, WHOIS : {FALSE}, NoWHOIS : {TRUE}, Concurrency : {1}],
             {<<>>})

\* loadBootstrap(ctx, httpc, srcURL, cachePath, ttl).
LoadBootstrap ==
    /\ call.fn = "loadBootstrap" /\ retval = <<>>
    /\ retval' = <<loadBootstrap(call.cachePath, call.file, call.resp)>>
    /\ UNCHANGED <<call, checkVars, whoisVars, regVars>>

\* parseBootstrap(b) and, when it succeeds, b.urlsForTLD(tld).
ParseBootstrap ==
    /\ call.fn = "parseBootstrap" /\ retval = <<>>
    /\ retval' = <<[ok   |-> parseBootstrap(call.doc).ok,
                 urls |-> IF parseBootstrap(call.doc).ok
                          THEN urlsForTLD(parseBootstrap(call.doc).bs, call.tld)
                          ELSE <<>>]>>
    /\ UNCHANGED <<call, checkVars, whoisVars, regVars>>

\* whois Client.LookupDomain(ctx, domain) on a new client, whois.iana.org
\* sending call.iana and the server it names call.reply: the evidence and
\* c.tldToServer afterwards, or the panic of serverForTLD.
LookupDomain ==
    /\ call.fn = "LookupDomain" /\ retval = <<>>
    /\ retval' = IF lastLabel(call.domain) # <<>> /\ ianaServer(call.iana).panic
                 THEN <<[panic |-> TRUE, ev |-> NoWhoisEvidence, cache |-> <<>>]>>
                 ELSE <<[panic |-> FALSE,
                         ev    |-> whoisLookupDomain(<<>>, call.domain,
                                                     IanaReply(ianaServer(call.iana).server),
                                                     call.reply).ev,
                         cache |-> whoisLookupDomain(<<>>, call.domain,
                                                     IanaReply(ianaServer(call.iana).server),
                                                     call.reply).cache]>>
    /\ UNCHANGED <<call, checkVars, whoisVars, regVars>>

\* classify(domain, body) of the text a WHOIS server sent.
Classify ==
    /\ call.fn = "classify" /\ retval = <<>>
    /\ retval' = <<classify(call.domain, bodyOf(call.domain, call.body))>>
    /\ UNCHANGED <<call, checkVars, whoisVars, regVars>>

\* domain.Normalize(input).
NormalizeCall ==
    /\ call.fn = "Normalize" /\ retval = <<>>
    /\ retval' = <<Normalize(call.input)>>
    /\ UNCHANGED <<call, checkVars, whoisVars, regVars>>

\* generate.New(opts).Labels(phrase).
LabelsCall ==
    /\ call.fn = "Labels" /\ retval = <<>>
    /\ retval' = <<Labels(New(call.opts), call.phrase)>>
    /\ UNCHANGED <<call, checkVars, whoisVars, regVars>>

NextCalls ==
    \/ LabelsCall
    \/ LoadBootstrap
    \/ ParseBootstrap
    \/ LookupDomain
    \/ Classify
    \/ NormalizeCall


\* ------------------------------------------------------------ specifications

\* Every answer the network can give.
FullWorld ==
    [http  |-> {HTTPResponse(200), HTTPResponse(404), HTTPResponse(503),
                TransportError("dial tcp: i/o timeout")},
     boot  |-> {HTTPResponse(200), HTTPResponse(503), TransportError("dial tcp: i/o timeout")},
     iana  |-> {IanaReply("whois.nic.example"), IanaReply(""),
                QueryError("dial tcp: i/o timeout")},
     whois |-> {QueryReply(Body({1}, {}, FALSE)), QueryReply(Body({7}, {1}, TRUE)),
                QueryReply(Body({}, {1}, TRUE)), QueryReply(Body({}, {}, TRUE)),
                QueryReply(Body({}, {}, FALSE)),
                QueryError("read: connection reset by peer")},
     cancel |-> FALSE]

\* Runs in which every request is answered the same way.
PoolWorlds ==
    {[http  |-> {h}, boot |-> {HTTPResponse(200)}, iana |-> {IanaReply("whois.nic.example")},
      whois |-> {QueryReply(Body({}, {}, FALSE))}, cancel |-> FALSE] : h \in {HTTPResponse(503)}}

\* "a.de", " A.de", "b.xy", "x", " "
InputPool ==
    { <<"a", ".", "d", "e">>, <<" ", "A", ".", "d", "e">>, <<"b", ".", "x", "y">>,
      <<"x">>, <<" ">> }

\* "a.de", "b.xy", "x"
PoolInputs ==
    { <<"a", ".", "d", "e">>, <<"b", ".", "x", "y">>, <<"x">> }

\* One worker, every option set, every network answer: checkOne and the
\* RDAP client in full.
Init ==
    /\ InitWith(Lists(InputPool, MaxInputs),
                [RDAP : BOOLEAN, WHOIS : BOOLEAN, NoWHOIS : BOOLEAN,
                 Concurrency : {NewChecker(1)}],
                {FullWorld})
    /\ NoCall /\ NoQuery /\ NoEnrich /\ NoPorkbun /\ NoRun

Spec == Init /\ [][Next]_vars

\* Several workers, the options the command line builds: the worker pool.
InitPool ==
    /\ InitWith(Lists(PoolInputs, PoolMaxInputs),
                [RDAP : {TRUE}, WHOIS : {TRUE}, NoWHOIS : {FALSE},
                 Concurrency : {NewChecker(c) : c \in 1..MaxWorkers}],
                PoolWorlds)
    /\ NoCall /\ NoQuery /\ NoEnrich /\ NoPorkbun /\ NoRun

SpecPool == InitPool /\ [][Next]_vars

\* A step on the channels or the WaitGroup of CheckDomains.
PoolStep ==
    \/ \E w \in DOMAIN loc : ProducerSend(w) \/ CollectorRecv(w) \/ WorkerExit(w)
    \/ ProducerClose
    \/ ProducerWait
    \/ ProducerCloseResults
    \/ CollectorReturn

\* The worker pool with the scheduler running a goroutine that can take a
\* step on a channel or the WaitGroup, and with every call of checkOne
\* returning.
\* The pool on lists of "a.de" and "x".
InitPoolLive ==
    /\ InitWith(Lists({<<"a", ".", "d", "e">>, <<"x">>}, PoolMaxInputs),
                [RDAP : {TRUE}, WHOIS : {TRUE}, NoWHOIS : {FALSE},
                 Concurrency : {NewChecker(c) : c \in 1..MaxWorkers}],
                PoolWorlds)
    /\ NoCall /\ NoQuery /\ NoEnrich /\ NoPorkbun /\ NoRun

SpecPoolLive ==
    /\ InitPoolLive /\ [][Next]_vars
    /\ WF_vars(PoolStep)
    /\ \A w \in 1..MaxWorkers : []<>(w \in DOMAIN loc => loc[w].pc \in {"recv", "send", "done"})

\* URLs of a service: "h://r1/", "h://r2", " h://r1/ ", "" and ":x".
UrlPool ==
    { <<"h", ":", "/", "/", "r", "1", "/">>, <<"h", ":", "/", "/", "r", "2">>,
      <<" ", "h", ":", "/", "/", "r", "1", "/", " ">>, <<>>, <<":", "x">> }

\* TLD lists of a service: ["de"], [" DE", "io"], [""].
TldLists ==
    { << <<"d", "e">> >>, << <<" ", "D", "E">>, <<"i", "o">> >>, << <<>> >> }

\* Bootstrap documents: one that does not decode, every single service over
\* TldLists and the URL lists up to MaxURLs, and the lists of up to
\* MaxServices services out of four (one of them with a single element).
BootstrapDocs ==
    LET few == { << << <<"d", "e">> >>, << <<"h", ":", "/", "/", "r", "1", "/">> >> >>,
                 << << <<"D", "e">>, <<"i", "o">> >>, << <<"h", ":", "/", "/", "r", "2">> >> >>,
                 << << <<"i", "o">> >>, <<>> >>,
                 << << <<"d", "e">> >> >> }
    IN  {bootstrapJSON(FALSE, <<>>)}
        \cup {bootstrapJSON(TRUE, <<svc>>) : svc \in TldLists \X Lists(UrlPool, MaxURLs)}
        \cup {bootstrapJSON(TRUE, l) : l \in Lists(few, MaxServices)}

\* What the bootstrap fetch can answer.
BootstrapFetches ==
    { TransportError("dial tcp: i/o timeout"), HTTPResponse(503), HTTPResponse(200),
      [HTTPResponse(200) EXCEPT !.readErr = "unexpected EOF"],
      [HTTPResponse(200) EXCEPT !.doc = bootstrapJSON(FALSE, <<>>)] }

\* The byte c, n times.
Rep(c, n) == [i \in 1..n |-> c]

\* The calls of the functions checked on their own.
Calls ==
    [fn : {"loadBootstrap"}, cachePath : BOOLEAN, resp : BootstrapFetches,
     file : { CacheFile(k, f, d, w) :
                k \in {"none", "dir", "file", "unreadable"}, f \in BOOLEAN,
                d \in {IanaDoc, bootstrapJSON(FALSE, <<>>)}, w \in BOOLEAN }]
    \cup [fn : {"parseBootstrap"}, doc : BootstrapDocs,
          tld : { <<"d", "e">>, <<"D", "E">>, <<"i", "o">>, <<"x", "y">>, <<>> }]
    \cup [fn : {"LookupDomain"}, domain : { <<"a", ".", "d", "e">>, <<"x">> },
          reply : {QueryReply(Body({}, {}, TRUE)), QueryError("read: connection reset by peer")},
          iana : { <<"w", "h", "o", "i", "s", ":", " ", "w", "h", "o", "i", "s", ".", "n",
                     "i", "c", ".", "e", "x", "a", "m", "p", "l", "e", "\n">>,
                   <<"r", "e", "f", "e", "r", ":", " ", "x", "\r", "\n", "W", "H", "O",
                     "I", "S", ":", "\t", "w", "h", "o", "i", "s", ".", "n", "i", "c", ".",
                     "e", "x", "a", "m", "p", "l", "e", " ", "y", "\r", "\n">>,
                   <<"d", "o", "m", "a", "i", "n", ":", " ", "D", "E", "\n", "\n", "s",
                     "t", "a", "t", "u", "s", ":", " ", "A", "C", "T", "I", "V", "E", "\n">>,
                   <<"w", "h", "o", "i", "s", ":", "\n">>,
                   <<"d", "o", "m", "a", "i", "n", ":", " ", "D", "E", "\n", " ", "w", "h",
                     "o", "i", "s", ":", " ", " ", "\n", "w", "h", "o", "i", "s", ":", " ",
                     "w", "\n">>,
                   <<"a", " ", "w", "h", "o", "i", "s", ":", " ", "w">>,
                   <<>> }]
    \cup [fn : {"Normalize"},
          input : { <<"a", ".", "d", "e">>,
                    <<" ", "A", ".", "D", "e", ".", " ">>,
                    <<"h", "t", "t", "p", ":", "/", "/", "a", ".", "d", "e", ":", "8", "0",
                      "/", "x">>,
                    <<"h", "t", "t", "p", "s", ":", "/", "/", "u", "@", "b", ".", "i", "o",
                      "/", "p", "?", "q", "#", "f">>,
                    <<"a", ".", "d", "e", ":", "4", "4", "3">>,
                    <<"a", ".", "d", "e", ":", "x">>,
                    <<"a", ".", "d", "e", ":">>,
                    <<"a", ":", "b", ":", "8", "0">>,
                    <<"a", ".", "d", "e", ":", "8", "0", ":", "x">>,
                    <<"a", ".", "d", "e", "/", "p">>,
                    <<"x">>,
                    <<>>,
                    <<" ", " ">>,
                    <<"a", ".", ".", "d", "e">>,
                    <<"-", "a", ".", "d", "e">>,
                    <<"a", "-", ".", "d", "e">>,
                    <<"a", "_", "b", ".", "d", "e">>,
                    <<"a", ".", "d", "e", ".", ".">>,
                    <<".", "a", ".", "d", "e">>,
                    <<"a", " ", "b", ".", "d", "e">>,
                    <<"a", "b", "-", "-", "c", ".", "d", "e">>,
                    <<"a", ".", "b", ".", "c", "9", "-", "d", ".", "d", "e">>,
                    <<"a", ".", "d", "e", ":", "4", "x", "3">>,
                    <<"1", ".", "2">>,
                    Rep("a", 63) \o <<".", "d", "e">>, Rep("a", 64) \o <<".", "d", "e">>,
                    Rep("a", 64) \o <<".", "d", "e", ":", "8", "0">>,
                    Rep("a", 63) \o <<".">> \o Rep("b", 63) \o <<".">> \o Rep("c", 63)
                        \o <<".">> \o Rep("d", 61),
                    Rep("a", 63) \o <<".">> \o Rep("b", 63) \o <<".">> \o Rep("c", 63)
                        \o <<".">> \o Rep("d", 62) }]
    \cup [fn : {"Labels"},
          opts : [MaxLabels : {0, MaxLabels, ManyLabels}, ReplaceKI : BOOLEAN, Reverse2 : BOOLEAN,
                  MinTokenLen : {0, 1}],
          phrase : { <<"a", "a", " ", "a", "a", " ", "b", "b">>,
                     <<"K", "i", " ", "a", "g", "e", "n", "t", "u", "r">>,
                     <<"a", "a", " ", "a", "a">>,
                     <<"a", "i", " ", "a", "g", "e", "n", "t">>,
                     <<"k", "i", " ", "a", "i", " ", "k", "i", " ", "a", "i", " ", "k", "i">>,
                     Rep("a", 32) \o <<" ">> \o Rep("b", 32),
                     <<" ", "s", "o", "f", "t", "w", "a", "r", "e", " ", "e", "n", "g",
                       "i", "n", "e", "e", "r", "i", "n", "g", " ", "t", "e", "a", "m", " ">>,
                     <<>>,
                     <<" ", " ">>,
                     <<"a", "-", "b">>,
                     <<"x", " ", "y", " ", "z">>,
                     <<"a", "g", "e", "n", "t", "i", "c", " ", "k", "i", " ", "l", "a",
                       "b", " ", "n", "o", "w">>,
                     <<"F", "o", "o", "_", "b", "a", "r", " ", "b", "\t", "B", "a", "z", "!">>,
                     <<"a", "a", " ", "b", "b", " ", "c", "c", " ", "d", "d", " ", "e",
                       "e", " ", "f", "f", " ", "g", "g", " ", "h", "h", " ", "i", "i",
                       " ", "j", "j", " ", "k", "k", " ", "l", "l", " ", "m", "m", " ",
                       "n", "n", " ", "o", "o", " ", "p", "p", " ", "q", "q", " ", "r",
                       "r", " ", "s", "s">> }]
    \cup [fn : {"classify"}, domain : { <<"a", ".", "d", "e">> },
          body : { <<"N", "o", " ", "m", "a", "t", "c", "h", " ", "f", "o", "r", " ", "\"",
                     "A", ".", "D", "E", "\"", ".">>,
                   <<"D", "o", "m", "a", "i", "n", " ", "N", "a", "m", "e", ":", " ", "a",
                     ".", "d", "e", "\n", "R", "e", "g", "i", "s", "t", "r", "a", "r", ":",
                     " ", "R", "\n">>,
                   <<"D", "o", "m", "a", "i", "n", ":", " ", "a", ".", "d", "e", "\n", "S",
                     "t", "a", "t", "u", "s", ":", " ", "f", "r", "e", "e">>,
                   <<"d", "o", "m", "a", "i", "n", " ", ":", " ", "A", ".", "D", "E", " ",
                     "\r", "\n">>,
                   <<"D", "o", "m", "a", "i", "n", " ", "N", "a", "m", "e", ":", " ", "b",
                     ".", "d", "e", "\n">>,
                   <<"r", "e", "g", "i", "s", "t", "r", "a", "r", ":", " ", "R">>,
                   <<"D", "o", "m", "a", "i", "n", " ", "n", "o", "t", " ", "f", "o", "u",
                     "n", "d">>,
                   <<"%", " ", "e", "r", "r", "o", "r">>,
                   <<>>,
                   <<"d", "o", "m", "a", "i", "n", ":", "\n", " ", "a", ".", "d", "e">>,
                   <<"D", "o", "m", "a", "i", "n", ":", " ", "a", ".", "d", "e", "x">>,
                   <<"x", " ", "D", "o", "m", "a", "i", "n", ":", " ", "a", ".", "d", "e">>,
                   <<"D", "o", "m", "a", "i", "n", ":", " ", "a", "x", "d", "e", "\n">>,
                   <<"D", "O", "M", "A", "I", "N", " ", "N", "A", "M", "E", ":", "\t", "a",
                     ".", "d", "e", " ", " ", "\n", "\n", "x">> }]

\* The state when the goroutines of callers have called Client.query on a
\* client made with one of the options, in a run of one of the worlds: errs
\* is what an attempt that reached the network can end with (<<>> is
\* success), cancel says whether ctx can be cancelled.
InitQueries(options, worlds, callers) ==
    /\ InitWith({<<>>}, [RDAP : {FALSE}, WHOIS : {TRUE}, NoWHOIS : {FALSE}, Concurrency : {1}],
                worlds)
    /\ NoCall /\ NoEnrich /\ NoPorkbun /\ NoRun
    /\ whoisOpts \in options
    /\ now = 0 /\ cancelAt = -1 /\ serverState = <<>>
    /\ caller \in callers
    /\ reserved = [s \in {caller[c].server : c \in DOMAIN caller} |-> <<>>]
    /\ wlog = [c \in DOMAIN caller |-> <<>>]

\* One goroutine, every kind of option and of error: the query loop.
InitWhois ==
    InitQueries([Timeout : {0}, MaxConcurrentPerServer : {0}, MinDelayPerServer : {0, 500},
                 Retries : {-1, 0, 1, 3}, Backoff : {0, 1500, 3000}],
                {[errs |-> { <<>>, <<Error("i/o timeout", "net.timeout")>>,
                             <<Error("connect: connection refused", "net")>>,
                             <<Error("unexpected EOF", "plain")>> },
                  cancel |-> TRUE]},
                {<<NewCaller("whois.nic.example")>>})

SpecWhois == InitWhois /\ [][NextWhois]_vars

\* Permits and pacing, an attempt answered or timing out: up to MaxCallers
\* goroutines on one or two servers making one attempt each, or two
\* goroutines on one server making up to two attempts each.
InitPace ==
    LET timeouts == {[errs |-> { <<>>, <<Error("i/o timeout", "net.timeout")>> },
                      cancel |-> TRUE]}
    IN  \/ InitQueries([Timeout : {0}, MaxConcurrentPerServer : {0, 2},
                         MinDelayPerServer : {0}, Retries : {-1}, Backoff : {0}],
                        timeouts,
                        {c \in UNION {[1..n -> {NewCaller(s) : s \in {"whois.iana.org",
                                                                       "whois.nic.example"}}] :
                                        n \in 2..MaxCallers} :
                           c[1].server = "whois.nic.example"})
        \/ InitQueries([Timeout : {0}, MaxConcurrentPerServer : {2}, MinDelayPerServer : {0},
                         Retries : {1}, Backoff : {0}],
                        timeouts,
                        {[c \in 1..2 |-> NewCaller("whois.nic.example")]})

SpecPace == InitPace /\ [][NextWhois]_vars

InitCalls == NoCheck /\ NoQuery /\ NoEnrich /\ NoPorkbun /\ NoRun /\ call \in Calls /\ retval = <<>>

SpecCalls == InitCalls /\ [][NextCalls]_vars

\* ------------------------------------------------ cmd/dothuntcli: run

\* An error value: nil, a *cliError, context.Canceled (or an error that
\* wraps it), or any other error.
NoError == [kind |-> "nil", Code |-> 0, Err |-> "", ShowUsage |-> FALSE]
CliError(code, msg, usage) == [kind |-> "cliError", Code |-> code, Err |-> msg, ShowUsage |-> usage]
CanceledError == [kind |-> "canceled", Code |-> 0, Err |-> "context canceled", ShowUsage |-> FALSE]
PlainError(msg) == [kind |-> "error", Code |-> 0, Err |-> msg, ShowUsage |-> FALSE]

errExit0 == CliError(0, "", FALSE)
usageErr(msg) == CliError(2, msg, TRUE)

\* A run that gives every error but a *cliError the code 1.
exitCode_oneForAll(err) ==
    IF err.kind = "nil" THEN 0
    ELSE IF err.kind = "cliError" THEN err.Code
    ELSE 1

\* run: the exit code for the error root.ExecuteContextC returned.
exitCode(err) ==
    IF err.kind = "nil" THEN 0
    ELSE IF err.kind = "cliError" THEN err.Code
    ELSE IF err.kind = "canceled" THEN 130
    ELSE 2

\* run prints the usage for a *cliError that asks for it and for any other
\* error but a cancellation.
showsUsage(err) ==
    IF err.kind = "cliError" THEN err.ShowUsage ELSE err.kind = "error"

\* The run before root.ExecuteContextC, for the command line inv.
NewRun(inv) ==
    [pc |-> "execute", inv |-> inv, registrar |-> FALSE, results |-> <<>>, checked |-> <<>>,
     strictFail |-> FALSE, out |-> <<>>, usage |-> FALSE, err |-> NoError, code |-> -1,
     interrupted |-> ""]

\* The RunE (or cobra) returns err to run.
ReturnErr(err) == [cli EXCEPT !.pc = "return", !.err = err]

restOfRun == <<checkVars, callVars, whoisVars, enrichVars, porkVars>>

\* root.ExecuteContextC up to the hooks: cobra finds the command and
\* validates its arguments (search has cobra.MinimumNArgs(1)).
Execute ==
    /\ cli # <<>> /\ cli.pc = "execute"
    /\ cli' = IF cli.inv.cmd = "nope"
              THEN ReturnErr(PlainError("unknown command \"nope\" for \"dothuntcli\""))
              ELSE IF cli.inv.cmd = "search" /\ cli.inv.arg = "none"
              THEN ReturnErr(PlainError("requires at least 1 arg(s), only received 0"))
              ELSE [cli EXCEPT !.pc = "prerun"]
    /\ UNCHANGED restOfRun

\* root.PersistentPreRunE.
PersistentPreRunE ==
    /\ cli # <<>> /\ cli.pc = "prerun"
    /\ LET inv == cli.inv
           run == IF inv.cmd = "" THEN "root" ELSE inv.cmd
       IN  cli' =
             IF inv.version
             THEN [ReturnErr(errExit0) EXCEPT !.out = Append(@, "version")]
             ELSE IF inv.aliases > 1
             THEN ReturnErr(usageErr("flags are mutually exclusive: --json, --ndjson, --plain"))
             ELSE IF inv.reg = "auto"
             THEN [cli EXCEPT !.pc = run, !.registrar = inv.keys]
             ELSE IF inv.reg = "none"
             THEN [cli EXCEPT !.pc = run, !.registrar = FALSE]
             ELSE IF inv.reg = "porkbun"
             THEN IF ~inv.keys
                  THEN ReturnErr(usageErr("missing Porkbun API keys (set PORKBUN_API_KEY and PORKBUN_SECRET_API_KEY)"))
                  ELSE [cli EXCEPT !.pc = run, !.registrar = TRUE]
             ELSE ReturnErr(usageErr("unknown registrar (use auto|none|porkbun)"))
    /\ UNCHANGED restOfRun

\* The root command's RunE.
RootRunE ==
    /\ cli # <<>> /\ cli.pc = "root"
    /\ cli' = ReturnErr(CliError(2, "", TRUE))
    /\ UNCHANGED restOfRun

\* check's RunE up to CheckDomains.
CheckRunE ==
    /\ cli # <<>> /\ cli.pc = "check"
    /\ cli' = IF cli.inv.readErr THEN ReturnErr(CliError(1, "failed to read domains", FALSE))
              ELSE IF cli.inv.n = 0 THEN ReturnErr(CliError(2, "", TRUE))
              ELSE [cli EXCEPT !.pc = "checkDomains"]
    /\ UNCHANGED restOfRun

\* search's RunE up to CheckDomains; n is the number of domains generated.
SearchRunE ==
    /\ cli # <<>> /\ cli.pc = "search"
    /\ cli' = IF cli.inv.arg = "blank" THEN ReturnErr(CliError(2, "", TRUE))
              ELSE IF cli.inv.arg = "notlds"
              THEN ReturnErr(CliError(2, "no TLDs specified (use --tlds)", TRUE))
              ELSE IF cli.inv.n = 0 THEN ReturnErr(NoError)
              ELSE [cli EXCEPT !.pc = "checkDomains"]
    /\ UNCHANGED restOfRun

\* A Result of the command line: the Result with its registrar group, and
\* Phrase and Score, which search sets.
RunResult(domain, status, err) ==
    [k \in DOMAIN ZeroResult \cup DOMAIN ZeroRegistrar \cup {"Phrase", "Score"} |->
        CASE k = "Domain" -> domain
          [] k = "Input"  -> domain
          [] k = "Status" -> status
          [] k = "Error"  -> err
          [] k = "CheckedAt" -> Now
          [] k = "Phrase" -> ""
          [] k = "Score"  -> 0
          [] k \in DOMAIN ZeroResult -> ZeroResult[k]
          [] OTHER -> ZeroRegistrar[k]]

\* What CheckDomains can return for a domain: "b.de" available, "a.de" taken,
\* "ab.de" unknown without an error, "a" unknown with one.
RunKinds ==
    { RunResult(<<"b", ".", "d", "e">>, StatusAvailable, ""),
      RunResult(<<"a", ".", "d", "e">>, StatusTaken, ""),
      RunResult(<<"a", "b", ".", "d", "e">>, StatusUnknown, ""),
      RunResult(<<"a">>, StatusUnknown, "domain must contain a dot: \"a\"") }

\* meta[domain]: the score of the label the domain was generated from.
scoreOf(domain) == 10 - Len(domain)

\* search's loop over results after CheckDomains.
withPhrase(rs) == [i \in DOMAIN rs |-> [rs[i] EXCEPT !.Phrase = "phrase", !.Score = scoreOf(rs[i].Domain)]]

\* cfg.checker.CheckDomains returns; with ctx done before the call every
\* Result is unknown.
RunCheckDomains ==
    /\ cli # <<>> /\ cli.pc = "checkDomains"
    /\ \E rs \in [1..cli.inv.n -> RunKinds] :
         /\ cli.interrupted # "" => \A i \in DOMAIN rs : rs[i].Status = StatusUnknown
         /\ cli' = [cli EXCEPT !.pc = "enrich",
                               !.results = IF cli.inv.cmd = "search" THEN withPhrase(rs) ELSE rs]
    /\ UNCHANGED restOfRun

\* enrichWithRegistrar returns: every selected Result was written by a
\* worker; with ctx done before the call every CheckDomain fails.
RunEnrich ==
    /\ cli # <<>> /\ cli.pc = "enrich"
    /\ \E rets \in [DOMAIN cli.results -> CheckDomainReturns] :
         /\ \A i \in DOMAIN rets :
              IF cli.registrar /\ selected(cli.inv.cmd, cli.results[i])
              THEN cli.interrupted # "" => rets[i].err # Nil
              ELSE rets[i] = [dc |-> ZeroDomainCheck, err |-> Nil]
         /\ LET rs == [i \in DOMAIN cli.results |->
                          IF cli.registrar /\ selected(cli.inv.cmd, cli.results[i])
                          THEN enriched(cli.results[i], rets[i])
                          ELSE cli.results[i]]
            IN  cli' = [cli EXCEPT !.pc = "output", !.results = rs, !.checked = rs]
    /\ UNCHANGED restOfRun

\* cfg.Strict and some Result unknown or with an error.
strictFailOf(strict, rs) ==
    strict /\ \E i \in DOMAIN rs : rs[i].Status = StatusUnknown \/ rs[i].Error # ""

\* The value of onlyVal before the switch: alias is --available-only for
\* check and --all for search.
onlyVal(inv, registrar) ==
    LET v == IF inv.only = ""
             THEN (IF inv.cmd = "check" THEN "all" ELSE "auto")
             ELSE inv.only
        w == IF inv.alias THEN (IF inv.cmd = "check" THEN "available" ELSE "all") ELSE v
    IN  IF inv.cmd = "search" /\ w = "auto"
        THEN (IF registrar THEN "buyable" ELSE "available")
        ELSE w

\* The error of the switch on onlyVal, NoError when it passes.
onlyErr(only, registrar) ==
    IF only \in {"all", "available", "taken", "unknown"} THEN NoError
    ELSE IF only = "buyable"
    THEN (IF registrar THEN NoError
          ELSE CliError(2, "--only buyable requires --registrar (or PORKBUN_API_KEY/PORKBUN_SECRET_API_KEY)", TRUE))
    ELSE CliError(2, "invalid --only", TRUE)

\* The filter's test of r.
kept(only, r) ==
    CASE only = "all"       -> TRUE
      [] only = "available" -> r.Status = StatusAvailable
      [] only = "taken"     -> r.Status = StatusTaken
      [] only = "unknown"   -> r.Status = StatusUnknown
      [] only = "buyable"   -> r.Buyable = boolPtr(TRUE)
      [] OTHER              -> FALSE

\* The value of sortVal before the switch.
sortVal(inv) ==
    IF inv.sort = "" THEN (IF inv.cmd = "check" THEN "input" ELSE "score") ELSE inv.sort

\* The sorts each command knows.
sortsOf(cmd) ==
    IF cmd = "check" THEN {"input", "domain", "status", "length"}
    ELSE {"score", "domain", "length"}

\* order[status], 99 for a status the map does not hold.
statusOrder(s) ==
    CASE s = StatusAvailable -> 0
      [] s = StatusTaken     -> 1
      [] s = StatusUnknown   -> 2
      [] OTHER               -> 99

\* The less function handed to sort.Slice.
lessBy(sort, a, b) ==
    CASE sort = "domain" -> StringLess(a.Domain, b.Domain)
      [] sort = "status" ->
           IF statusOrder(a.Status) # statusOrder(b.Status)
           THEN statusOrder(a.Status) < statusOrder(b.Status)
           ELSE StringLess(a.Domain, b.Domain)
      [] sort = "length" ->
           IF Len(a.Domain) # Len(b.Domain) THEN Len(a.Domain) < Len(b.Domain)
           ELSE StringLess(a.Domain, b.Domain)
      [] sort = "score" ->
           IF a.Score # b.Score THEN a.Score > b.Score
           ELSE IF Len(a.Domain) # Len(b.Domain) THEN Len(a.Domain) < Len(b.Domain)
           ELSE StringLess(a.Domain, b.Domain)
      [] OTHER -> FALSE

\* sort.Slice(rs, less) is not stable: any arrangement of rs in which no
\* element is less than one before it; "input" sorts nothing.
sortedSlices(sort, rs) ==
    IF sort = "input" THEN {rs}
    ELSE {[i \in DOMAIN rs |-> rs[p[i]]] :
            p \in {q \in Permutations(DOMAIN rs) :
                     \A i, j \in DOMAIN rs : i < j => ~lessBy(sort, rs[q[j]], rs[q[i]])}}

\* results[:maxResults] of search.
capped(inv, rs) ==
    IF inv.cmd = "search" /\ inv.maxResults > 0 /\ Len(rs) > inv.maxResults
    THEN SubSeq(rs, 1, inv.maxResults)
    ELSE rs

\* An output step that reports a strict failure without writing.
RunOutput_strictFirst ==
    /\ cli # <<>> /\ cli.pc = "output"
    /\ LET only == onlyVal(cli.inv, cli.registrar)
           sort == sortVal(cli.inv)
           fail == strictFailOf(cli.inv.strict, cli.results)
           rs   == SelectSeq(cli.results, LAMBDA r : kept(only, r))
       IN  IF onlyErr(only, cli.registrar) # NoError
           THEN cli' = [ReturnErr(onlyErr(only, cli.registrar)) EXCEPT !.strictFail = fail]
           ELSE IF sort \notin sortsOf(cli.inv.cmd)
           THEN cli' = [ReturnErr(CliError(2, "invalid --sort", TRUE))
                            EXCEPT !.strictFail = fail, !.results = rs]
           ELSE IF fail
           THEN cli' = [ReturnErr(CliError(1, "", FALSE)) EXCEPT !.strictFail = fail]
           ELSE \E sorted \in sortedSlices(sort, rs), written \in BOOLEAN :
                  cli' = [ReturnErr(IF ~written
                                    THEN CliError(1, "failed to write output", FALSE)
                                    ELSE NoError)
                            EXCEPT !.strictFail = fail,
                                   !.results = capped(cli.inv, sorted),
                                   !.out = IF written THEN Append(@, capped(cli.inv, sorted))
                                           ELSE @]
    /\ UNCHANGED restOfRun

\* The RunE of check and of search from strictFail to its return: the filter,
\* the sort, writeResults (which may fail) and the strict failure.
RunOutput ==
    /\ cli # <<>> /\ cli.pc = "output"
    /\ LET only == onlyVal(cli.inv, cli.registrar)
           sort == sortVal(cli.inv)
           fail == strictFailOf(cli.inv.strict, cli.results)
           rs   == SelectSeq(cli.results, LAMBDA r : kept(only, r))
       IN  IF onlyErr(only, cli.registrar) # NoError
           THEN cli' = [ReturnErr(onlyErr(only, cli.registrar)) EXCEPT !.strictFail = fail]
           ELSE IF sort \notin sortsOf(cli.inv.cmd)
           THEN cli' = [ReturnErr(CliError(2, "invalid --sort", TRUE))
                            EXCEPT !.strictFail = fail, !.results = rs]
           ELSE \E sorted \in sortedSlices(sort, rs), written \in BOOLEAN :
                  cli' = [ReturnErr(IF ~written
                                    THEN CliError(1, "failed to write output", FALSE)
                                    ELSE IF fail THEN CliError(1, "", FALSE)
                                    ELSE NoError)
                            EXCEPT !.strictFail = fail,
                                   !.results = capped(cli.inv, sorted),
                                   !.out = IF written THEN Append(@, capped(cli.inv, sorted))
                                           ELSE @]
    /\ UNCHANGED restOfRun

\* run after root.ExecuteContextC returned: the usage and the exit code.
Exit ==
    /\ cli # <<>> /\ cli.pc = "return"
    /\ cli' = [cli EXCEPT !.pc = "exited", !.code = exitCode(cli.err),
                          !.usage = showsUsage(cli.err)]
    /\ UNCHANGED restOfRun

\* os.Interrupt arrives: signal.NotifyContext cancels the root context.
Interrupt ==
    /\ cli # <<>> /\ cli.pc # "exited" /\ cli.interrupted = ""
    /\ cli' = [cli EXCEPT !.interrupted = cli.pc]
    /\ UNCHANGED restOfRun

NextRun ==
    \/ Execute
    \/ PersistentPreRunE
    \/ RootRunE
    \/ CheckRunE
    \/ SearchRunE
    \/ RunCheckDomains
    \/ RunEnrich
    \/ RunOutput
    \/ Exit
    \/ Interrupt

\* Results as CheckDomains returns them, the registrar group still zero.
ResultKinds ==
    LET r == [k \in DOMAIN ZeroResult \cup DOMAIN ZeroRegistrar |->
                 IF k \in DOMAIN ZeroResult THEN ZeroResult[k] ELSE ZeroRegistrar[k]]
        d == [r EXCEPT !.Input = <<"a", ".", "d", "e">>, !.Domain = <<"a", ".", "d", "e">>,
                       !.Label = <<"a">>, !.TLD = <<"d", "e">>, !.CheckedAt = Now]
    IN  { [d EXCEPT !.Status = StatusAvailable, !.Registered = boolPtr(FALSE),
                    !.Method = MethodRDAP, !.Confidence = "high", !.RDAPStatus = "available",
                    !.RDAPCode = StatusNotFound],
          [d EXCEPT !.Status = StatusTaken, !.Registered = boolPtr(TRUE),
                    !.Method = MethodRDAP, !.Confidence = "high", !.RDAPStatus = "taken",
                    !.RDAPCode = StatusOK],
          [d EXCEPT !.Status = StatusUnknown, !.Method = MethodWHOIS, !.Confidence = "low",
                    !.WHOISStatus = "unknown"],
          [d EXCEPT !.Status = StatusUnknown, !.Method = MethodRDAP, !.Confidence = "low",
                    !.Error = "rdap: dial tcp: i/o timeout", !.RDAPError = "dial tcp: i/o timeout"],
          [r EXCEPT !.Input = <<"a">>, !.Domain = <<"a">>, !.Status = StatusUnknown,
                    !.Error = "domain must contain a dot: \"a\"", !.Detail = "invalid input",
                    !.CheckedAt = Now],
          [r EXCEPT !.Input = <<" ">>, !.Status = StatusUnknown, !.Error = "empty domain",
                    !.Detail = "invalid input", !.CheckedAt = Now] }

\* The slices of at most n results.
ResultLists(n) == UNION {[1..k -> ResultKinds] : k \in 0..n}

InitEnrich ==
    /\ NoCheck /\ NoQuery /\ NoCall /\ NoPorkbun /\ NoRun
    /\ results \in ResultLists(MaxResults)
    /\ enrich \in [pc : {"start"}, reg : BOOLEAN, concurrency : {0, 1, 2},
                    pred : {"check", "search", "none"}, prod : {[pc |-> "loop", i |-> 0]},
                    jobsClosed : {FALSE}, w : {<<>>}]
    /\ regCalls = <<>>

SpecEnrich == InitEnrich /\ [][NextEnrich]_vars

\* The options handed to porkbun.NewClient; durations in milliseconds.
PorkbunOptions == [MinDelay : {0, 1000}, MaxConcurrent : {0, 1}]

\* The Porkbun client after NewClient(o) and two goroutines about to call
\* CheckDomain, in one of the worlds.
InitClient(options, worlds) ==
    /\ InitWith({<<>>}, [RDAP : {FALSE}, WHOIS : {FALSE}, NoWHOIS : {TRUE}, Concurrency : {1}],
                worlds)
    /\ NoQuery /\ NoCall /\ NoEnrich /\ NoRun
    /\ pork \in [opts : {NewPorkbunClient(o) : o \in options},
                  sem : {0}, nextRequestAt : {0}, dynamicMinDelay : {0}]
    /\ pcalls = <<IdleCall, IdleCall>>
    /\ plog = [calls |-> 0, reserved |-> <<>>, sent |-> <<>>, returned |-> <<>>]

\* A world says what the server answers in a run (responses), how long an
\* answer can take (latency), the domains asked for and whether ctx can be
\* cancelled. Runs about pacing, about the limits of the answers, and about
\* failures: the server refusing (a code other than 200, or a body with a
\* message), and answers that cannot be used (no answer, a body that is not
\* JSON, a success without its avail field).
InitPorkbun ==
    \/ InitClient(PorkbunOptions,
           [responses : {{r \in PorkbunResponses :
                             r.valid /\ r.decoded.Response.Avail = <<"n", "o">>}},
            latency : {{0, Latency}}, domains : {{<<"a", ".", "d", "e">>}}, cancel : BOOLEAN])
    \/ InitClient({[MinDelay |-> 0, MaxConcurrent |-> 0]},
           [responses : {WithDelay(2500) \cup WithDelay(1000), WithDelay(5000) \cup WithDelay(0)},
            latency : {{0}}, domains : {{<<"a", ".", "d", "e">>}}, cancel : {FALSE}])
    \/ InitClient({[MinDelay |-> 0, MaxConcurrent |-> 0]},
           [responses : {{r \in PorkbunResponses :
                             r.err = Nil /\ (r.code # StatusOK \/ (r.valid /\ r.decoded.Message # <<>>))},
                         {r \in PorkbunResponses :
                             r.err # Nil \/ (r.code = StatusOK /\
                                (~r.valid \/ (r.decoded.Message = <<>> /\ r.decoded.Response.Avail = <<>>)))}},
            latency : {{0}}, domains : {{<<"a", ".", "d", "e">>, <<" ">>}}, cancel : {FALSE}])

SpecPorkbun == InitPorkbun /\ [][NextPorkbun]_vars



\* --------------------------------------------------------------- properties

\* checkOne returned a Result for input index i.
Checked(i) == computed[i] # ZeroResult

\* r names the domain of input: its normalized name, or the trimmed input
\* when Normalize rejects it.
IsResultFor(r, input) ==
    r.Domain = IF Normalize(input).ok THEN Normalize(input).ascii ELSE TrimSpace(input)

\* C1: CheckDomains returns a sequence as long as the input list whose element
\* i is the Result checkOne computed for input i, whatever the worker count
\* and the order in which the checks complete.
C1_OrderPreserved ==
    /\ Len(outSlice) = Len(inputs)
    /\ returned =>
         \A i \in 1..Len(inputs) :
            /\ Checked(i)
            /\ outSlice[i] = computed[i]
            /\ IsResultFor(outSlice[i], inputs[i])

\* C1 witness: CheckDomains returned two different Results although the
\* Result of the second input reached the collector first.
C1_Witness ==
    /\ returned /\ Len(inputs) >= 2
    /\ arrivals[1] = 1
    /\ outSlice[1] # outSlice[2]
    /\ IsResultFor(outSlice[1], inputs[1]) /\ IsResultFor(outSlice[2], inputs[2])

\* C2: every Result checkOne produces has a status among available, taken
\* and unknown; registered is present and false when available, present and
\* true when taken, and absent when unknown.
C2_StatusRegistered ==
    \A i \in DOMAIN computed :
        Checked(i) =>
            /\ computed[i].Status \in {"available", "taken", "unknown"}
            /\ computed[i].Status = "available" => computed[i].Registered = <<FALSE>>
            /\ computed[i].Status = "taken" => computed[i].Registered = <<TRUE>>
            /\ computed[i].Status = "unknown" => computed[i].Registered = <<>>

\* C2 witness: a Result that WHOIS answered taken.
C2_Witness ==
    \E i \in DOMAIN computed :
        /\ computed[i].Status = "taken" /\ computed[i].Method = "whois"
        /\ computed[i].Registered = <<TRUE>>

IsRdapOp(op) == op \in {"rdap.LookupDomain", "rdap.lookupOne", "rdap.return"}

\* C3: for one input, every step of the RDAP lookup precedes the WHOIS lookup;
\* WHOIS is looked up only when it is enabled and only after RDAP (when there
\* is an RDAP client) returned unknown evidence; once RDAP returned available
\* or taken there is no WHOIS lookup.
C3_RdapBeforeWhois ==
    \A i \in DOMAIN trace :
        \A p \in 1..Len(trace[i]) :
            trace[i][p].op = "whois.LookupDomain" =>
                /\ opts.WHOIS /\ ~opts.NoWHOIS
                /\ \A q \in 1..Len(trace[i]) : IsRdapOp(trace[i][q].op) => q < p
                /\ opts.RDAP => \E q \in 1..(p - 1) : trace[i][q].op = "rdap.LookupDomain"
                /\ (\E q \in 1..Len(trace[i]) : IsRdapOp(trace[i][q].op)) =>
                       \E q \in 1..(p - 1) : /\ trace[i][q].op = "rdap.return"
                                             /\ trace[i][q].ev.Status = "unknown"
                /\ \A q \in 1..Len(trace[i]) :
                       trace[i][q].op = "rdap.return" =>
                           trace[i][q].ev.Status \notin {"available", "taken"}

\* C3 witness: a WHOIS lookup right after RDAP returned unknown.
C3_Witness ==
    \E i \in DOMAIN trace :
        \E p \in 2..Len(trace[i]) :
            /\ trace[i][p].op = "whois.LookupDomain"
            /\ trace[i][p - 1].op = "rdap.return"
            /\ trace[i][p - 1].ev.Status = "unknown"


\* detail holds both reasons, the RDAP one first, separated by "; " (bare or
\* with the "rdap: " and "whois: " labels of checkOne's summary).
HoldsBoth(detail, a, b) ==
    detail \in {a \o "; " \o b, "rdap: " \o a \o "; whois: " \o b}

\* detail holds the one reason a (bare or with its method's label).
HoldsOne(detail, label, a) == detail \in {a, label \o a}

\* C4: a Result that ends unknown after Normalize succeeded has a detail
\* assembled from every reason present: both reasons separated by "; " when
\* RDAP and WHOIS each gave one, the one reason when only one did, and
\* "lookup unavailable" when there is none.
C4_DetailAssembled ==
    \A i \in DOMAIN computed :
        (Checked(i) /\ Normalize(inputs[i]).ok /\ computed[i].Status = "unknown") =>
            LET r == computed[i]
                a == r.RDAPReason
                b == r.WHOISReason
            IN  /\ (a # "" /\ b # "") => HoldsBoth(r.Detail, a, b)
                /\ (a # "" /\ b = "") => HoldsOne(r.Detail, "rdap: ", a)
                /\ (a = "" /\ b # "") => HoldsOne(r.Detail, "whois: ", b)
                /\ (a = "" /\ b = "") => r.Detail = "lookup unavailable"

\* C5: every Result whose status is available or taken has an empty error,
\* also when RDAP recorded an error before WHOIS gave the answer.
C5_ErrorCleared ==
    \A i \in DOMAIN computed :
        (Checked(i) /\ computed[i].Status \in {"available", "taken"}) =>
            computed[i].Error = ""

\* C5 witness: WHOIS answered available after RDAP had recorded an error.
C5_Witness ==
    \E i \in DOMAIN computed :
        /\ computed[i].Status = "available" /\ computed[i].Method = "whois"
        /\ computed[i].RDAPError # "" /\ computed[i].Error = ""

\* C6: for an input Normalize rejects, checkOne makes no RDAP and no WHOIS
\* lookup and returns status unknown, method none, detail "invalid input"
\* and the normalization message as error.
C6_InvalidInput ==
    \A i \in DOMAIN computed :
        ~Normalize(inputs[i]).ok =>
            /\ trace[i] = <<>>
            /\ Checked(i) =>
                 /\ computed[i].Status = "unknown"
                 /\ computed[i].Method = "none"
                 /\ computed[i].Detail = "invalid input"
                 /\ computed[i].Error = Normalize(inputs[i]).err

\* C6 witness: checkOne returned for a rejected input.
C6_Witness ==
    \E i \in DOMAIN computed : ~Normalize(inputs[i]).ok /\ Checked(i)

HasOp(i, op) == \E p \in 1..Len(trace[i]) : trace[i][p].op = op

\* C7: method names the last transport attempted for the input: whois when a
\* WHOIS lookup was made, rdap when RDAP was looked up and WHOIS was not, none
\* when there was no lookup.
C7_MethodLastTransport ==
    \A i \in DOMAIN computed :
        Checked(i) =>
            computed[i].Method =
                IF HasOp(i, "whois.LookupDomain") THEN "whois"
                ELSE IF HasOp(i, "rdap.LookupDomain") THEN "rdap"
                ELSE "none"

\* C7 witness: an unknown Result after an RDAP and a WHOIS lookup.
C7_Witness ==
    \E i \in DOMAIN computed :
        /\ Checked(i) /\ computed[i].Status = "unknown"
        /\ HasOp(i, "rdap.LookupDomain") /\ HasOp(i, "whois.LookupDomain")
        /\ computed[i].Method = "whois"

\* C8: a Result has confidence low exactly when its status is unknown; an
\* available or taken Result has confidence high when RDAP answered and
\* medium when WHOIS answered.
C8_ConfidenceStatus ==
    \A i \in DOMAIN computed :
        Checked(i) =>
            /\ computed[i].Status = "unknown" <=> computed[i].Confidence = "low"
            /\ (computed[i].Status # "unknown" /\ computed[i].Method = "rdap") =>
                   computed[i].Confidence = "high"
            /\ (computed[i].Status # "unknown" /\ computed[i].Method = "whois") =>
                   computed[i].Confidence = "medium"

\* C8 witness: RDAP answered available with confidence high.
C8_Witness ==
    \E i \in DOMAIN computed :
        /\ computed[i].Status = "available" /\ computed[i].Method = "rdap"
        /\ computed[i].Confidence = "high"

\* The events of input i with the given op, in order.
Ops(i, op) == SelectSeq(trace[i], LAMBDA e : e.op = op)

\* The error of the last evidence of g that has one, Nil when none has.
LastErrOf(g) ==
    LET K == {k \in 1..Len(g) : g[k].ev.Err # Nil}
    IN  IF K = {} THEN Nil ELSE g[CHOOSE k \in K : \A j \in K : j <= k].ev.Err

\* C9: the candidate base URLs of a domain's TLD are requested in bootstrap
\* order; no candidate is requested after one that answered available or
\* taken, whose evidence LookupDomain returns; when every candidate answered
\* unknown, LookupDomain returns unknown with the error of the last candidate
\* that had one.
C9_CandidateOrder ==
    \A i \in DOMAIN trace :
        LET dom  == Normalize(inputs[i]).ascii
            urls == urlsForTLD(IanaBootstrap, lastLabel(dom))
            g    == Ops(i, "rdap.lookupOne")
            ret  == Ops(i, "rdap.return")
        IN  /\ Len(g) <= Len(urls)
            /\ \A k \in 1..Len(g) : g[k].ev.URL = Str(rdapURL(urls[k], dom))
            /\ \A k \in 1..(Len(g) - 1) : g[k].ev.Status = "unknown"
            /\ Len(ret) <= 1
            /\ (Len(ret) = 1 /\ Len(g) >= 1) =>
                  /\ trace[i][Len(g) + 2].op = "rdap.return"
                  /\ IF g[Len(g)].ev.Status # "unknown"
                     THEN ret[1].ev = g[Len(g)].ev
                     ELSE /\ Len(g) = Len(urls)
                          /\ ret[1].ev.Status = "unknown"
                          /\ ret[1].ev.Err = LastErrOf(g)

\* C9 witness: two candidates failed with different errors and LookupDomain
\* returned.
C9_Witness ==
    \E i \in DOMAIN trace :
        LET g == Ops(i, "rdap.lookupOne")
        IN  /\ Len(g) = 2 /\ g[1].ev.Err # g[2].ev.Err
            /\ g[1].ev.Err # Nil /\ g[2].ev.Err # Nil
            /\ Len(Ops(i, "rdap.return")) = 1

\* C10: lookupOne classifies a response by its HTTP status alone: 200 is
\* taken, high, "rdap 200"; 404 is available, high, "rdap 404"; any other
\* code c is unknown, low, "rdap http c".
C10_Classification ==
    \A i \in DOMAIN trace :
        \A p \in 1..Len(trace[i]) :
            (trace[i][p].op = "rdap.lookupOne" /\ trace[i][p].code # 0) =>
                LET e == trace[i][p].ev
                    c == trace[i][p].code
                IN  /\ c = 200 =>
                          e.Status = "taken" /\ e.Confidence = "high" /\ e.Reason = "rdap 200"
                    /\ c = 404 =>
                          e.Status = "available" /\ e.Confidence = "high" /\ e.Reason = "rdap 404"
                    /\ c \notin {200, 404} =>
                          /\ e.Status = "unknown" /\ e.Confidence = "low"
                          /\ e.Reason = "rdap http " \o ToString(c)

\* C10 witness: a candidate answered 503 and one answered 404.
C10_Witness ==
    \E i \in DOMAIN trace :
        \E p, q \in 1..Len(trace[i]) :
            /\ trace[i][p].op = "rdap.lookupOne" /\ trace[i][p].code = 503
            /\ trace[i][p].ev.Reason = "rdap http 503"
            /\ trace[i][q].op = "rdap.lookupOne" /\ trace[i][q].code = 404
            /\ trace[i][q].ev.Status = "available"

\* The call of fn has returned.
Returned(fn) == call.fn = fn /\ retval # <<>>

\* C11: when the bootstrap cannot be fetched (transport error, a status other
\* than 200, an unreadable or undecodable body) and the cache file holds a
\* copy that parses, however old, loadBootstrap succeeds with that copy; and
\* loadBootstrap fails only when neither the cache file nor the fetch gives a
\* copy that parses.
C11_StaleFallback ==
    Returned("loadBootstrap") =>
        LET cached  == /\ call.cachePath /\ call.file.kind = "file"
                       /\ parseBootstrap(call.file.doc).ok
            fetched == /\ call.resp.err = Nil /\ call.resp.code = StatusOK
                       /\ call.resp.readErr = Nil /\ parseBootstrap(call.resp.doc).ok
        IN  /\ (~fetched /\ cached) =>
                  /\ retval[1].ok
                  /\ retval[1].bs = parseBootstrap(call.file.doc).bs
            /\ ~retval[1].ok => (~fetched /\ ~cached)

\* The elements of urls after strings.TrimSpace.
Trimmed(urls) == [i \in DOMAIN urls |-> TrimSpace(urls[i])]

\* got holds exactly the elements of urls that satisfy Keep, each once, in
\* the order of their first occurrence in urls.
IsOrderedSelection(got, urls, Keep(_)) ==
    /\ \A i, j \in DOMAIN got : i # j => got[i] # got[j]
    /\ {got[i] : i \in DOMAIN got} = {urls[i] : i \in {k \in DOMAIN urls : Keep(urls[k])}}
    /\ \A i, j \in DOMAIN got :
         i < j => \E p \in DOMAIN urls :
                     /\ urls[p] = got[i]
                     /\ \A q \in 1..p : urls[q] # got[j]

\* The index of the last two-element service of doc that lists tld (compared
\* in lower case, trimmed), 0 when there is none.
ServiceOf(doc, tld) ==
    LET hits == {k \in DOMAIN doc.services :
                   /\ Len(doc.services[k]) = 2
                   /\ \E i \in DOMAIN doc.services[k][1] :
                        /\ ToLower(TrimSpace(doc.services[k][1][i])) = ToLower(tld)
                        /\ ToLower(tld) # <<>>}
    IN  IF hits = {} THEN 0 ELSE CHOOSE k \in hits : \A h \in hits : h <= k

\* C12 (as the code has it): for a bootstrap document that parses,
\* urlsForTLD(tld) is found by the lower-cased TLD; for a TLD that no service
\* lists it is empty, and otherwise it holds the URLs of the last service
\* listing the TLD, trimmed of white space, in their original order, without
\* the empty ones, the ones url.Parse rejects, and later duplicates.
C12_UrlsForTLD ==
    (Returned("parseBootstrap") /\ retval[1].ok) =>
        IF ServiceOf(call.doc, call.tld) = 0 THEN retval[1].urls = <<>>
        ELSE IsOrderedSelection(retval[1].urls,
                                Trimmed(call.doc.services[ServiceOf(call.doc, call.tld)][2]),
                                LAMBDA u : u # <<>> /\ urlParse(u).ok)

\* C12 as stated: the URLs of the service in their original order with only
\* duplicates and empty entries removed.
C12_UrlsForTLD_AsStated ==
    (Returned("parseBootstrap") /\ retval[1].ok) =>
        IF ServiceOf(call.doc, call.tld) = 0 THEN retval[1].urls = <<>>
        ELSE IsOrderedSelection(retval[1].urls,
                                call.doc.services[ServiceOf(call.doc, call.tld)][2],
                                LAMBDA u : u # <<>>)

\* A TLD spelled in upper case finds the two distinct URLs of a service
\* that lists them with a duplicate among them.
C12_Witness ==
    /\ Returned("parseBootstrap") /\ retval[1].ok
    /\ call.tld = <<"D", "E">>
    /\ ServiceOf(call.doc, call.tld) # 0
    /\ Len(retval[1].urls) = 1
    /\ Len(call.doc.services[ServiceOf(call.doc, call.tld)][2]) = 2
    /\ call.doc.services[ServiceOf(call.doc, call.tld)][2][1] # <<>>
    /\ call.doc.services[ServiceOf(call.doc, call.tld)][2][2] # <<>>
    /\ \A i \in 1..2 :
         urlParse(TrimSpace(call.doc.services[ServiceOf(call.doc, call.tld)][2][i])).ok


\* ---- internal/whois: pacing and permits (SpecPace) ----

\* The reservations of server s are spaced by the minimum delay, in the
\* order they were made.
Spaced(s) ==
    \A i \in 1..(Len(reserved[s]) - 1) :
        reserved[s][i + 1] >= reserved[s][i] + NewClient(whoisOpts).MinDelayPerServer

\* A step leaves the next start of every server where it was or later.
NextStartAdvances ==
    \A s \in DOMAIN serverState :
        s \in DOMAIN serverState' /\ serverState'[s].next >= serverState[s].next

\* C13: for each WHOIS server, whatever the interleaving of goroutines and
\* of their retried attempts, each scheduled start is at least the minimum
\* delay after the scheduled start reserved before it, and the server's
\* next start never decreases.
C13_Pacing ==
    /\ [](\A s \in DOMAIN reserved : Spaced(s))
    /\ [][NextStartAdvances]_vars

\* Two goroutines have reserved on one server, one of them for its second
\* attempt, and a later reservation was made while the earlier slot was
\* still in the future.
C13_Witness ==
    \E s \in DOMAIN reserved :
        /\ Len(reserved[s]) >= 3
        /\ \E c \in DOMAIN caller : caller[c].server = s /\ caller[c].attempt = 1
        /\ \E c, d \in DOMAIN caller :
              /\ c # d /\ caller[c].server = s /\ caller[d].server = s
              /\ caller[c].pc = "pace" /\ caller[d].pc \in {"pace", "dial", "io"}

\* The goroutines inside an attempt on server s after "st.sem <- struct{}{}".
Holders(s) ==
    {c \in DOMAIN caller : caller[c].server = s
                            /\ caller[c].pc \in {"reserve", "pace", "dial", "io"}}

\* C14: for each WHOIS server, at most MaxConcurrentPerServer attempts
\* hold its permit at any time, and the permits taken are exactly those of
\* the attempts still running: an attempt that ended, by an answer, an
\* error or a cancellation, holds none.
C14_Permits ==
    \A s \in DOMAIN serverState :
        /\ Cardinality(Holders(s)) <= NewClient(whoisOpts).MaxConcurrentPerServer
        /\ serverState[s].sem = Cardinality(Holders(s))

\* One goroutine's attempt was cancelled during its pacing wait and gave
\* its permit back, while another goroutine holds a permit of the same
\* server in its second attempt, the first having timed out.
C14_Witness ==
    \E s \in DOMAIN serverState : \E c, d \in DOMAIN caller :
        /\ caller[c].server = s /\ caller[d].server = s
        /\ caller[c].pc = "done" /\ caller[c].err = <<Canceled>>
        /\ Len(wlog[c]) >= 2 /\ wlog[c][Len(wlog[c]) - 1].step = "reserve"
        /\ d \in Holders(s) /\ caller[d].attempt = 1
        /\ serverState[s].sem = 1

\* ---- internal/whois: one attempt and the query loop (SpecWhois) ----

\* Step i of goroutine c's log is a dial that follows the acquiring of the
\* permit, the reservation and, when the scheduled time was still ahead,
\* the end of the wait for it; the dial is not before the scheduled time and
\* its deadline is the full timeout after the dial.
DialInOrder(c, i) ==
    LET l  == wlog[c]
        r  == IF i > 1 /\ l[i - 1].step = "wake" THEN i - 2 ELSE i - 1
    IN  /\ r >= 2
        /\ l[r].step = "reserve" /\ l[r - 1].step = "acquire"
        /\ (r = i - 1) = (l[r].v <= l[r].at)
        /\ l[r - 1].at <= l[r].at /\ l[r].at <= l[i].at
        /\ l[i].at >= l[r].v
        /\ l[i].v = l[i].at + NewClient(whoisOpts).Timeout

\* C15: in every WHOIS attempt the permit is acquired, then the pacing slot
\* reserved, then the scheduled time waited for, and only then the timeout
\* started and the dial made: no dial is before its scheduled time, and the
\* deadline is the whole timeout after the dial, the wait not counted.
C15_AttemptOrder ==
    \A c \in DOMAIN wlog : \A i \in 1..Len(wlog[c]) :
        /\ wlog[c][i].step = "dial" => DialInOrder(c, i)
        /\ wlog[c][i].step = "reserve" => i > 1 /\ wlog[c][i - 1].step = "acquire"

\* An attempt reserved a slot that was still ahead, waited for it and
\* dialled at the scheduled time.
C15_Witness ==
    \E c \in DOMAIN wlog : \E i \in 4..Len(wlog[c]) :
        /\ wlog[c][i].step = "dial" /\ wlog[c][i - 1].step = "wake"
        /\ wlog[c][i - 2].step = "reserve" /\ wlog[c][i - 2].v > wlog[c][i - 2].at
        /\ wlog[c][i].at = wlog[c][i - 2].v

\* The steps of goroutine c's log at which an attempt returned.
Returns(c) == {i \in 1..Len(wlog[c]) : wlog[c][i].step = "return"}

\* C16: one WHOIS query makes at most Retries+1 attempts, 3 when Retries is
\* left or given as 0 and 1 when it is negative; an attempt that succeeded
\* or failed with an error that is not retryable is the last one.
C16_Attempts ==
    \A c \in DOMAIN wlog :
        /\ Cardinality(Returns(c)) <= (IF whoisOpts.Retries = 0 THEN 3
                                       ELSE IF whoisOpts.Retries < 0 THEN 1
                                       ELSE whoisOpts.Retries + 1)
        /\ \A i \in Returns(c) :
             (wlog[c][i].v = <<>> \/ ~isRetryable(wlog[c][i].v[1]))
                => i = Len(wlog[c]) /\ caller[c].pc = "done"

\* With Retries given as 0 a query has made three attempts, failed twice
\* with a retryable error and was refused the third time.
C16_Witness ==
    \E c \in DOMAIN wlog :
        /\ whoisOpts.Retries = 0 /\ Cardinality(Returns(c)) = 3
        /\ caller[c].pc = "done" /\ caller[c].err # <<>>
        /\ caller[c].err[1].kind = "net"

\* C17: a WHOIS attempt that returned the cancellation error is the last
\* step of its query; a backoff sleep that ctx interrupted ends the query
\* with the cancellation error; and a backoff sleep was only ever slept to
\* its end when ctx was not done before the timer's time.
C17_CancelNotRetried ==
    \A c \in DOMAIN wlog : \A i \in 1..Len(wlog[c]) :
        LET l == wlog[c]
        IN  /\ l[i].step = "return" /\ l[i].v = <<Canceled>>
                => i = Len(l) /\ caller[c].pc = "done" /\ caller[c].err = <<Canceled>>
            /\ l[i].step = "interrupted"
                => /\ i = Len(l) /\ l[i - 1].step = "sleep"
                   /\ caller[c].pc = "done" /\ caller[c].err = <<Canceled>>
            /\ l[i].step = "sleep" /\ i < Len(l) /\ l[i + 1].step = "wake"
                => cancelAt = -1 \/ cancelAt >= l[i].at + l[i].v

\* A query ended in its backoff sleep, after a first attempt that timed
\* out, because ctx was cancelled while it slept.
C17_Witness ==
    \E c \in DOMAIN wlog :
        /\ Len(wlog[c]) >= 3 /\ wlog[c][Len(wlog[c])].step = "interrupted"
        /\ cancelAt > wlog[c][Len(wlog[c]) - 1].at
        /\ wlog[c][Len(wlog[c]) - 2].v # <<>>
        /\ wlog[c][Len(wlog[c]) - 2].v[1].kind = "net.timeout"

\* The durations of the backoff sleeps of goroutine c, in order.
Sleeps(c) == SelectSeq(wlog[c], LAMBDA e : e.step = "sleep")

\* C18: the first backoff sleep of a query lasts the configured backoff,
\* 250 ms when none is configured, each later one twice the one before it
\* or 2 s when that is less, and no backoff sleep is longer than 2 s.
C18_BackoffCap ==
    \A c \in DOMAIN wlog :
        LET sl == Sleeps(c)
        IN  /\ sl # <<>> => sl[1].v = (IF whoisOpts.Backoff <= 0 THEN 250
                                       ELSE whoisOpts.Backoff)
            /\ \A i \in 2..Len(sl) :
                 sl[i].v = (IF 2 * sl[i - 1].v < 2000 THEN 2 * sl[i - 1].v ELSE 2000)
            /\ \A i \in 1..Len(sl) : sl[i].v <= 2000

\* ---- internal/whois: server discovery and classification (SpecCalls) ----

\* Some line of the whois.iana.org reply starts, after its leading blanks and
\* in any case, with "whois:" followed by a token. What follows "\n" in text
\* starts a line.
RECURSIVE NamesServer(_)
NamesServer(text) ==
    LET line == TrimSpace(Before(text, "\n"))
    IN  \/ /\ HasPrefix(ToLower(line), <<"w", "h", "o", "i", "s", ":">>)
           /\ TrimSpace(Slice(line, 6, Len(line))) # <<>>
        \/ /\ IndexByte(text, "\n") >= 0
           /\ NamesServer(Slice(text, IndexByte(text, "\n") + 1, Len(text)))

\* C19: when the whois.iana.org reply for the TLD of a domain has no
\* "whois:" line with a server token, a blank "whois:" line included,
\* LookupDomain returns unknown evidence with the reason "no whois server"
\* and an error, without a panic, and stores no server for the TLD.
C19_NoWhoisServer ==
    Returned("LookupDomain") /\ lastLabel(call.domain) # <<>> /\ ~NamesServer(call.iana)
        => /\ ~retval[1].panic
           /\ retval[1].ev.Status = "unknown" /\ retval[1].ev.Reason = "no whois server"
           /\ retval[1].ev.Err # Nil
           /\ retval[1].cache = <<>>

\* The needles the lower-cased text contains, by their place in the list.
NeedlesIn(text) ==
    {k \in DOMAIN notFoundPatterns : Contains(ToLower(text), notFoundPatterns[k].Needle)}

\* C20: classify answers available, with the tag of the first needle of
\* the list that the lower-cased body contains, whatever else the body
\* holds; without a needle, taken with a pattern of its own when a record
\* names the queried domain; without that, taken with the pattern
\* heuristic_record_fields when the body contains "domain name:" or
\* "registrar:"; and unknown with an empty pattern otherwise. Available and
\* taken come with a pattern that is not empty.
C20_Classify ==
    Returned("classify") =>
        LET hits   == NeedlesIn(call.body)
            named  == recordNames(call.domain, call.body) # {}
            fields == \/ Contains(ToLower(call.body),
                                  <<"d", "o", "m", "a", "i", "n", " ", "n", "a", "m", "e", ":">>)
                      \/ Contains(ToLower(call.body),
                                  <<"r", "e", "g", "i", "s", "t", "r", "a", "r", ":">>)
            r      == retval[1]
        IN  /\ hits # {} =>
                 /\ r.status = "available"
                 /\ r.pattern = notFoundPatterns[Min(hits)].Pattern
            /\ hits = {} /\ named =>
                 r.status = "taken" /\ r.pattern \notin {"", "heuristic_record_fields"}
            /\ hits = {} /\ ~named /\ fields =>
                 r.status = "taken" /\ r.pattern = "heuristic_record_fields"
            /\ hits = {} /\ ~named /\ ~fields => r.status = "unknown" /\ r.pattern = ""
            /\ r.status \in {"available", "taken"} => r.pattern # ""

\* classify answered available for a body that holds a needle and a
\* record naming the queried domain at once.
C20_Witness ==
    /\ Returned("classify") /\ retval[1].status = "available"
    /\ NeedlesIn(call.body) # {} /\ recordNames(call.domain, call.body) # {}

\* ---- internal/domain: Normalize (SpecCalls) ----

\* C26: Normalize of a name Normalize returned succeeds and returns the
\* same name.
C26_Idempotent ==
    Returned("Normalize") /\ retval[1].ok =>
        /\ Normalize(retval[1].ascii).ok
        /\ Normalize(retval[1].ascii).ascii = retval[1].ascii

\* Normalize accepted an input it had to change: a URL with a port and a
\* path, upper case or a trailing dot.
C26_Witness ==
    /\ Returned("Normalize") /\ retval[1].ok
    /\ retval[1].ascii # call.input
    /\ Contains(call.input, <<":", "/", "/">>)

\* The name Normalize checks for input: the host without scheme, path and
\* port, without one trailing dot, trimmed and in lower case.
NameOf(input) ==
    ToLower(TrimSpace(TrimSuffix(stripPort(stripPath(hostOfURL(TrimSpace(input)))), <<".">>)))

\* The label is not empty, at most 63 bytes of a-z, 0-9 and "-", and neither
\* starts nor ends with "-".
LabelRules(l) ==
    /\ Len(l) >= 1 /\ Len(l) <= 63
    /\ \A i \in 1..Len(l) : l[i] \in LowerLetters \cup Digits \cup {"-"}
    /\ l[1] # "-" /\ l[Len(l)] # "-"

\* C27: Normalize rejects an input that is empty after trimming, a name of
\* a single label and a name with a label that breaks the rules for
\* labels; every name it returns has at least two labels, all within the
\* rules, and at most 253 bytes.
C27_Rejects ==
    Returned("Normalize") =>
        /\ TrimSpace(call.input) = <<>> => ~retval[1].ok
        /\ Len(SplitDots(NameOf(call.input))) < 2 => ~retval[1].ok
        /\ (\E k \in 1..Len(SplitDots(NameOf(call.input))) :
               ~LabelRules(SplitDots(NameOf(call.input))[k])) => ~retval[1].ok
        /\ retval[1].ok =>
             /\ Len(SplitDots(retval[1].ascii)) >= 2
             /\ \A k \in 1..Len(SplitDots(retval[1].ascii)) :
                  LabelRules(SplitDots(retval[1].ascii)[k])
             /\ Len(retval[1].ascii) <= 253

\* Normalize rejected a name whose only fault is a label of 64 bytes.
C27_Witness ==
    /\ Returned("Normalize") /\ ~retval[1].ok
    /\ Len(SplitDots(NameOf(call.input))) = 2
    /\ Len(SplitDots(NameOf(call.input))[1]) = 64
    /\ LabelRules(SplitDots(NameOf(call.input))[2])
    /\ \A i \in 1..64 : SplitDots(NameOf(call.input))[1][i] \in LowerLetters

\* C28: Normalize strips what follows the last ":" only when it is all
\* digits; otherwise it is left in place and the input is rejected.
C28_PortDigits ==
    Returned("Normalize") =>
        LET s == stripPath(hostOfURL(TrimSpace(call.input)))
            i == LastIndexByte(s, ":")
        IN  i >= 0 /\ ~isAllDigits(Slice(s, i + 1, Len(s))) => ~retval[1].ok

\* ---- internal/generate: Labels (SpecCalls) ----

\* C29: every candidate Labels returns has a label of at most 63 bytes of
\* a-z, 0-9 and "-" without a leading, trailing or doubled hyphen, and a
\* score from 1 to 100.
C29_LabelAndScore ==
    Returned("Labels") =>
        \A i \in 1..Len(retval[1]) :
            /\ retval[1][i].Label # <<>> /\ Len(retval[1][i].Label) <= 63
            /\ \A k \in 1..Len(retval[1][i].Label) :
                 retval[1][i].Label[k] \in LowerLetters \cup Digits \cup {"-"}
            /\ retval[1][i].Label[1] # "-"
            /\ retval[1][i].Label[Len(retval[1][i].Label)] # "-"
            /\ ~Contains(retval[1][i].Label, <<"-", "-">>)
            /\ retval[1][i].Score \in 1..100

\* The adds of the call.
CallAdds ==
    allAdds(New(call.opts), tokenize(TrimSpace(call.phrase), New(call.opts).MinTokenLen))

\* The highest score the adds as give label l.
TopScore(as, l) ==
    CHOOSE n \in {as[k][2] : k \in {j \in 1..Len(as) : as[j][1] = l}} :
        \A k \in 1..Len(as) : as[k][1] = l => as[k][2] <= n

\* The candidates the adds as can give: every valid label among them with
\* the highest score it is given.
Derived(as) ==
    {[Label |-> l, Score |-> TopScore(as, l)] :
        l \in {as[k][1] : k \in {j \in 1..Len(as) : isValidLabel(as[j][1])}}}

\* Candidate a comes before b: the higher score, then the shorter label,
\* then the label that is smaller byte by byte.
RanksBefore(a, b) ==
    \/ a.Score > b.Score
    \/ a.Score = b.Score /\ Len(a.Label) < Len(b.Label)
    \/ /\ a.Score = b.Score /\ Len(a.Label) = Len(b.Label)
       /\ \E i \in 1..Len(a.Label) :
            /\ SubSeq(a.Label, 1, i - 1) = SubSeq(b.Label, 1, i - 1)
            /\ byteRank(a.Label[i]) < byteRank(b.Label[i])

\* The list out holds candidates of derived, each once, in the order of
\* RanksBefore, at most max of them and then the first ones; and the order
\* leaves no choice between two candidates.
Ranked(out, derived, max) ==
    /\ \A i \in 1..Len(out) : out[i] \in derived
    /\ \A i, j \in 1..Len(out) : i < j => RanksBefore(out[i], out[j])
    /\ Len(out) <= max
    /\ Len(out) < max => derived = {out[i] : i \in 1..Len(out)}
    /\ \A d \in derived :
         \/ \E i \in 1..Len(out) : out[i] = d
         \/ \A i \in 1..Len(out) : RanksBefore(out[i], d)
    /\ \A d, e \in derived : d = e \/ RanksBefore(d, e) \/ RanksBefore(e, d)

\* C30: Labels returns each label once with the highest score of its
\* derivations, in the order of RanksBefore, at most MaxLabels of them (50
\* when the option is not positive) and then those that come first; the
\* order leaves no choice, so equal phrase and options give the same list.
C30_Ranked ==
    Returned("Labels") => Ranked(retval[1], Derived(CallAdds), New(call.opts).MaxLabels)

\* Some add gives label l a score below n.
LowerForm(as, l, n) == \E k \in 1..Len(as) : as[k][1] = l /\ as[k][2] < n

\* Labels returned MaxLabels candidates and left others out, one of the
\* returned labels has forms of different scores, and two of the returned
\* candidates have the same score.
C30_Witness ==
    /\ Returned("Labels") /\ call.opts.MaxLabels = MaxLabels
    /\ Len(retval[1]) = MaxLabels
    /\ Cardinality(Derived(CallAdds)) > MaxLabels
    /\ \E i \in 1..Len(retval[1]) : LowerForm(CallAdds, retval[1][i].Label, retval[1][i].Score)
    /\ \E i, j \in 1..Len(retval[1]) : i # j /\ retval[1][i].Score = retval[1][j].Score

\* ---- cmd/dothuntcli: enrichWithRegistrar (SpecEnrich) ----

\* The CheckDomain calls made for results[i].
CallsFor(i) == {k \in 1..Len(regCalls) : regCalls[k].idx = i - 1}

\* C21 as stated: when enrichWithRegistrar has returned, the registrar was
\* called exactly once for each Result that satisfies the caller's predicate and
\* never for another.
C21_OncePerPredicate ==
    enrich.pc = "returned" /\ enrich.reg =>
        \A i \in 1..Len(results) :
            Cardinality(CallsFor(i)) =
                IF shouldCheck(enrich.pred, results[i]) THEN 1 ELSE 0

\* C21: a Result is called for at most once, only when it has a domain, no
\* error and satisfies the caller's predicate, and with its domain; when
\* enrichWithRegistrar has returned with a registrar, each such Result was
\* called for exactly once; without a registrar there is no call.
C21_OncePerSelected ==
    /\ \A i \in 1..Len(results) :
         /\ Cardinality(CallsFor(i)) <= 1
         /\ \A k \in CallsFor(i) :
              /\ regCalls[k].before.Domain # <<>> /\ regCalls[k].before.Error = ""
              /\ shouldCheck(enrich.pred, regCalls[k].before)
              /\ regCalls[k].domain = regCalls[k].before.Domain
    /\ enrich.pc = "returned" =>
         \A i \in 1..Len(results) :
             Cardinality(CallsFor(i)) =
                 IF /\ enrich.reg
                    /\ results[i].Domain # <<>> /\ results[i].Error = ""
                    /\ shouldCheck(enrich.pred, results[i])
                 THEN 1 ELSE 0

\* enrichWithRegistrar returned in check mode after a call for an unknown
\* Result without error and none for an unknown Result with an error.
C21_Witness ==
    /\ enrich.pc = "returned" /\ enrich.pred = "check" /\ Len(results) = 2
    /\ \E i, j \in 1..2 :
         /\ results[i].Status = StatusUnknown /\ results[i].Error = ""
         /\ Cardinality(CallsFor(i)) = 1
         /\ results[j].Status = StatusUnknown /\ results[j].Error # ""
         /\ results[j].Domain # <<>>
         /\ CallsFor(j) = {}

\* The registrar group of Result r.
RegistrarGroup(r) == [k \in DOMAIN ZeroRegistrar |-> r[k]]

\* C22: a failed registrar call changes only registrar and registrar_error
\* of its Result: buyable, premium and first_year_promo stay absent and the
\* price fields empty; after a call that succeeded, registrar is name(), the
\* fields hold what was decoded and registrar_error is empty.
C22_CallWrites ==
    \A k \in 1..Len(regCalls) :
        LET r == results[regCalls[k].idx + 1]
        IN  /\ r.Registrar = RegistrarName
            /\ regCalls[k].ret.err # Nil =>
                 /\ r = [regCalls[k].before EXCEPT !.Registrar = r.Registrar,
                                                   !.RegistrarError = r.RegistrarError]
                 /\ r.RegistrarError = regCalls[k].ret.err
                 /\ r.Buyable = NilBool /\ r.Premium = NilBool /\ r.FirstYearPromo = NilBool
                 /\ r.Price = "" /\ r.RegularPrice = "" /\ r.Currency = ""
            /\ regCalls[k].ret.err = Nil =>
                 /\ r.Buyable = <<regCalls[k].ret.dc.Buyable>>
                 /\ r.Premium = <<regCalls[k].ret.dc.Premium>>
                 /\ r.FirstYearPromo = <<regCalls[k].ret.dc.FirstYearPromo>>
                 /\ r.Price = regCalls[k].ret.dc.Price
                 /\ r.RegularPrice = regCalls[k].ret.dc.RegularPrice
                 /\ r.Currency = regCalls[k].ret.dc.Currency
                 /\ r.MinDuration = regCalls[k].ret.dc.MinDuration
                 /\ r.RegistrarLimits = regCalls[k].ret.dc.Limits
                 /\ r.RegistrarError = ""

\* enrichWithRegistrar returned after one call that failed and one that
\* succeeded with prices and limits.
C22_Witness ==
    /\ enrich.pc = "returned" /\ Len(regCalls) = 2
    /\ \E j, k \in 1..2 :
         /\ regCalls[j].ret.err # Nil
         /\ regCalls[k].ret.err = Nil /\ regCalls[k].ret.dc.Limits # NoLimits
         /\ results[regCalls[k].idx + 1].Price = "9.73"

\* ---- internal/registrar/porkbun (SpecPorkbun) ----

\* The larger of two numbers.
Larger(a, b) == IF a > b THEN a ELSE b

\* C23: every reservation takes scheduled = max(now, nextRequestAt) and
\* sets nextRequestAt = scheduled + max(MinDelay, dynamicMinDelay); a
\* reservation is at least that delay, as the one before it read it, after the
\* one before it; nextRequestAt never decreases; and every request sent has a
\* reservation and is not sent before its scheduled time.
C23_Throttle ==
    /\ \A k \in 1..Len(plog.reserved) :
         /\ plog.reserved[k].scheduled = Larger(plog.reserved[k].at, plog.reserved[k].before)
         /\ plog.reserved[k].next =
                plog.reserved[k].scheduled
                + Larger(plog.reserved[k].minDelay, plog.reserved[k].dynamicMinDelay)
         /\ plog.reserved[k].next >= plog.reserved[k].before
         /\ plog.reserved[k].before = IF k = 1 THEN 0 ELSE plog.reserved[k - 1].next
         /\ k > 1 =>
              plog.reserved[k].scheduled - plog.reserved[k - 1].scheduled
              >= Larger(plog.reserved[k - 1].minDelay, plog.reserved[k - 1].dynamicMinDelay)
    /\ pork.nextRequestAt =
           IF plog.reserved = <<>> THEN 0 ELSE plog.reserved[Len(plog.reserved)].next
    /\ Len(plog.sent) <= Len(plog.reserved)
    /\ \A k \in 1..Len(plog.sent) :
         /\ plog.sent[k].at >= plog.sent[k].scheduled
         /\ \E j \in 1..Len(plog.reserved) : plog.reserved[j].scheduled = plog.sent[k].scheduled

\* Three reservations by two goroutines: the second read a dynamic delay
\* above MinDelay, the third is scheduled that delay after it and later than
\* it was made, and its request went out at the scheduled time.
C23_Witness ==
    /\ Len(plog.reserved) = 3
    /\ plog.reserved[2].dynamicMinDelay > plog.reserved[2].minDelay
    /\ plog.reserved[3].scheduled = plog.reserved[2].scheduled + plog.reserved[2].dynamicMinDelay
    /\ plog.reserved[3].scheduled > plog.reserved[3].at
    /\ \E k \in 1..Len(plog.sent) :
         plog.sent[k].scheduled = plog.reserved[3].scheduled /\ plog.sent[k].at = plog.sent[k].scheduled

\* The delay per request the limits l ask for, at most 5 s, in milliseconds.
AskedDelay(l) ==
    IF ~magLess(l.TTLSeconds.mag, <<0, 0, 5 * l.Limit.mag[3]>>) THEN 5000
    ELSE (l.TTLSeconds.mag[3] * 1000) \div l.Limit.mag[3]

\* The return e of CheckDomain succeeded with limits of a TTL and a limit
\* above 0.
PositiveLimits(e) ==
    /\ e.ret.err = Nil /\ e.ret.dc.Limits # NoLimits
    /\ ~e.ret.dc.Limits[1].TTLSeconds.neg /\ e.ret.dc.Limits[1].TTLSeconds.mag # <<0, 0, 0>>
    /\ ~e.ret.dc.Limits[1].Limit.neg /\ e.ret.dc.Limits[1].Limit.mag # <<0, 0, 0>>

\* C24: dynamicMinDelay never decreases and never exceeds 5 s; it changes
\* only when CheckDomain returns a success whose limits have a TTL and a
\* limit above 0, and is then max(current, min(TTL/limit, 5 s)); a failed
\* call leaves it as it is.
C24_DynamicDelay ==
    /\ pork.dynamicMinDelay =
           IF plog.returned = <<>> THEN 0 ELSE plog.returned[Len(plog.returned)].after
    /\ \A k \in 1..Len(plog.returned) :
         /\ plog.returned[k].before = IF k = 1 THEN 0 ELSE plog.returned[k - 1].after
         /\ plog.returned[k].after >= plog.returned[k].before
         /\ plog.returned[k].after <= 5000
         /\ plog.returned[k].after =
                IF PositiveLimits(plog.returned[k])
                THEN Larger(plog.returned[k].before,
                            AskedDelay(plog.returned[k].ret.dc.Limits[1]))
                ELSE plog.returned[k].before

\* The answer resp has a decoded body whose status is not SUCCESS in any
\* case of the letters.
NotSuccess(resp) ==
    /\ resp.err = Nil /\ resp.code = StatusOK /\ resp.valid
    /\ ToLower(resp.decoded.Status) # <<"s", "u", "c", "c", "e", "s", "s">>

\* CheckDomain's return e is an error without DomainCheck data.
ErrorOnly(e) == e.ret.err # Nil /\ e.ret.dc = ZeroDomainCheck

\* C25 as stated: CheckDomain returns an error and no data for an answer
\* with a status code other than 200 and for a 200 answer whose status is not
\* SUCCESS, and the error text of the latter contains the message field.
C25_MessageContained ==
    \A k \in 1..Len(plog.returned) :
        LET e == plog.returned[k]
        IN  /\ e.resp # <<>> /\ e.resp.err = Nil /\ e.resp.code # StatusOK => ErrorOnly(e)
            /\ e.resp # <<>> /\ NotSuccess(e.resp) =>
                 /\ ErrorOnly(e)
                 /\ e.ret.err = Str(statusError(e.resp.decoded))
                 /\ Contains(statusError(e.resp.decoded), e.resp.decoded.Message)

\* C25: CheckDomain returns an error and no data for an answer with a
\* status code other than 200 and for a 200 answer whose status is not
\* SUCCESS; the error text of the latter ends with the message field without
\* the white space around it, or with "unknown error" when nothing is left of
\* the message.
C25_ErrorStatus ==
    \A k \in 1..Len(plog.returned) :
        LET e == plog.returned[k]
        IN  /\ e.resp # <<>> /\ e.resp.err = Nil /\ e.resp.code # StatusOK => ErrorOnly(e)
            /\ e.resp # <<>> /\ NotSuccess(e.resp) =>
                 /\ ErrorOnly(e)
                 /\ e.ret.err = Str(statusError(e.resp.decoded))
                 /\ HasSuffix(statusError(e.resp.decoded),
                              IF TrimSpace(e.resp.decoded.Message) = <<>>
                              THEN <<"u", "n", "k", "n", "o", "w", "n", " ", "e", "r", "r", "o", "r">>
                              ELSE TrimSpace(e.resp.decoded.Message))

\* CheckDomain returned for an answer with code 500, for one with status
\* ERROR and a message, and for one with status error and a blank message.
C25_Witness ==
    /\ \E k \in 1..Len(plog.returned) :
         plog.returned[k].resp # <<>> /\ plog.returned[k].resp.code = 500
    /\ \E k \in 1..Len(plog.returned) :
         /\ plog.returned[k].resp # <<>> /\ NotSuccess(plog.returned[k].resp)
         /\ TrimSpace(plog.returned[k].resp.decoded.Message) # <<>>
    /\ \E k \in 1..Len(plog.returned) :
         /\ plog.returned[k].resp # <<>> /\ NotSuccess(plog.returned[k].resp)
         /\ TrimSpace(plog.returned[k].resp.decoded.Message) = <<>>
         /\ plog.returned[k].ret.err = "porkbun: unknown error"

\* The tokens Labels works on in the call.
CallTokens == tokenize(TrimSpace(call.phrase), New(call.opts).MinTokenLen)

\* The forms of token t under the replacement kind: "ki" gives ki and ai for
\* each other, "eng" gives eng for engineering and for engineer.
Forms(kind, t) ==
    IF kind = "ki" /\ t \in {ki, ai} THEN {ki, ai}
    ELSE IF kind = "eng" /\ t \in {engineering, engineer} THEN {t, eng}
    ELSE {t}

\* The token sequences that have a form of toks[i] at every place i.
RECURSIVE Variants(_, _)
Variants(kind, toks) ==
    IF toks = <<>> THEN {<<>>}
    ELSE {<<h>> \o t : h \in Forms(kind, Head(toks)), t \in Variants(kind, Tail(toks))}

\* The number of tokens of toks that have two forms under kind.
Replaceable(kind, toks) ==
    Cardinality({i \in 1..Len(toks) : Cardinality(Forms(kind, toks[i])) = 2})

\* The whole of toks and its runs of two and of three tokens.
Grams(toks) ==
    {toks} \cup UNION {{SubSeq(toks, i, i + n - 1) : i \in 1..(Len(toks) - n + 1)} : n \in 2..3}

\* Labels returned a candidate with the tokens toks joined by hyphens and a
\* score of 1 or more.
Yields(toks) ==
    \E i \in 1..Len(retval[1]) :
        retval[1][i].Label = Join(toks, <<"-">>) /\ retval[1][i].Score >= 1

\* The labels C31 names for the tokens toks and the options o, each as the
\* tokens it joins: the ki and ai forms of the phrase, the two tokens in reverse,
\* and the runs of the phrase with their eng forms.
Named(o, toks) ==
    (IF o.ReplaceKI /\ Replaceable("ki", toks) >= 1 THEN Variants("ki", toks) ELSE {})
    \cup (IF o.Reverse2 /\ Len(toks) = 2 THEN {<<toks[2], toks[1]>>} ELSE {})
    \cup (IF Len(toks) >= 2 THEN UNION {Variants("eng", s) : s \in Grams(toks)} ELSE {})

LookupGroup(r) == [k \in DOMAIN r \ DOMAIN ZeroRegistrar |-> r[k]]

\* C40: no step of enrichWithRegistrar changes the number of Results or a
\* field of a Result outside the registrar group (status, registered, method,
\* confidence, detail, error, the rdap and whois fields among them); a Result
\* it did not select is not changed at all; and when it has returned, no
\* worker has a write left and the Results change no more.
C40_Frame ==
    [][ /\ Len(results') = Len(results)
        /\ \A i \in 1..Len(results) :
             /\ LookupGroup(results'[i]) = LookupGroup(results[i])
             /\ ~(enrich.reg /\ selected(enrich.pred, results[i])) => results'[i] = results[i]
        /\ enrich'.pc = "returned" => \A w \in DOMAIN enrich'.w : enrich'.w[w].pc = "done"
        /\ enrich.pc = "returned" => results' = results ]_vars

\* enrichWithRegistrar returned with two Results: one it selected, whose
\* registrar group is written, and one it did not select, whose registrar
\* group is still zero.
C40_Witness ==
    /\ enrich.pc = "returned" /\ Len(results) = 2
    /\ \E i, j \in 1..2 :
         /\ selected(enrich.pred, results[i]) /\ results[i].Registrar = RegistrarName
         /\ results[i].Status = StatusAvailable /\ results[i].Buyable # NilBool
         /\ ~selected(enrich.pred, results[j]) /\ RegistrarGroup(results[j]) = ZeroRegistrar

\* ---- internal/availability: the goroutines of CheckDomains (SpecPool, SpecPoolLive) ----

\* Worker w is inside checkOne.
Checking(w) == loc[w].pc \notin {"recv", "send", "done"}

\* Every goroutine CheckDomains started has ended.
AllEnded == prod.pc = "done" /\ \A w \in DOMAIN loc : loc[w].pc = "done"

\* C36: the job channel is closed only after the last job was sent and
\* nothing is sent on it afterwards; the result channel is closed only after
\* every worker has finished, so no worker sends on it afterwards; and with
\* every goroutine scheduled again and again CheckDomains returns, for every
\* input list, the empty one included, with no goroutine left behind.
C36_Terminates ==
    /\ [](jobsClosed => prod.i = Len(inputs) /\ prod.pc # "send")
    /\ [](resultsClosed => jobsClosed /\ wg = 0 /\ \A w \in DOMAIN loc : loc[w].pc = "done")
    /\ [](returned => AllEnded /\ resultsClosed)
    /\ <>returned

\* CheckDomains returned for two inputs and two workers; both workers took a
\* job and every goroutine has ended.
C36_Witness ==
    /\ returned /\ AllEnded /\ Len(inputs) = 2 /\ Cardinality(DOMAIN loc) = 2
    /\ Len(arrivals) = 2

\* The indexes handed to workers so far, in a sequence: those received by the
\* collector, then those still with a worker.
RECURSIVE Held(_)
Held(ws) ==
    IF ws = {} THEN <<>>
    ELSE LET w == CHOOSE x \in ws : TRUE
         IN  (IF loc[w].pc \in {"recv", "done"} THEN <<>> ELSE <<loc[w].idx>>) \o Held(ws \ {w})

\* C37: at most max(1, Concurrency) workers are inside checkOne at a time;
\* the indexes handed out so far are 0 to prod.i - 1, each held by one worker
\* or received from one, never both and never twice; and at the return every
\* index of the input has been checked once.
C37_PoolSize ==
    /\ Cardinality({w \in DOMAIN loc : Checking(w)})
         <= (IF opts.Concurrency >= 1 THEN opts.Concurrency ELSE 1)
    /\ LET handed == arrivals \o Held(DOMAIN loc)
       IN  /\ Len(handed) = prod.i
           /\ {handed[k] : k \in 1..Len(handed)} = 0..(prod.i - 1)
    /\ returned => Len(arrivals) = Len(inputs)

\* Two workers are inside checkOne at the same time, with different indexes.
C37_Witness ==
    /\ opts.Concurrency = 2
    /\ \E v, w \in DOMAIN loc : v # w /\ Checking(v) /\ Checking(w) /\ loc[v].idx # loc[w].idx

\* ------------------------------------------- the caches of the two clients

\* "a.de", "x"
CacheInputs == { <<"a", ".", "d", "e">>, <<"x">> }

\* Runs in which the bootstrap fetch may fail or succeed, each time anew, and
\* runs in which the whois.iana.org query may.
BootWorld ==
    [http  |-> {HTTPResponse(503)},
     boot  |-> {HTTPResponse(200), HTTPResponse(503)},
     iana  |-> {IanaReply("whois.nic.example")},
     whois |-> {QueryReply(Body({}, {}, FALSE))},
     cancel |-> FALSE]

IanaWorld ==
    [http  |-> {HTTPResponse(503)},
     boot  |-> {HTTPResponse(200)},
     iana  |-> {IanaReply("whois.nic.example"), QueryError("dial tcp: i/o timeout")},
     whois |-> {QueryReply(Body({}, {}, FALSE))},
     cancel |-> FALSE]

\* Several workers on one RDAP client (WHOIS off), or on one WHOIS client
\* (RDAP off).
InitCache ==
    /\ \/ InitWith(Lists(CacheInputs, PoolMaxInputs),
                   [RDAP : {TRUE}, WHOIS : {FALSE}, NoWHOIS : {TRUE},
                    Concurrency : {NewChecker(c) : c \in 1..MaxWorkers}],
                   {BootWorld})
       \/ InitWith(Lists(CacheInputs, PoolMaxInputs),
                   [RDAP : {FALSE}, WHOIS : {TRUE}, NoWHOIS : {FALSE},
                    Concurrency : {NewChecker(c) : c \in 1..MaxWorkers}],
                   {IanaWorld})
    /\ NoCall /\ NoQuery /\ NoEnrich /\ NoPorkbun /\ NoRun

SpecCache == InitCache /\ [][Next]_vars

\* Worker w is inside getBootstrap's loadBootstrap.
Loading(w) == loc[w].pc = "rdap_load"

\* Worker w's rdap LookupDomain has a TLD and so calls getBootstrap.
AtGetBootstrap(w) == loc[w].pc = "rdap" /\ lastLabel(loc[w].ascii) # <<>>

\* C38: on one RDAP client, whatever the interleaving of the lookups, at most
\* one goroutine is loading the bootstrap at a time and at most one load ever
\* succeeds, the one that set c.bootstrap; a lookup loads exactly when
\* c.bootstrap is unset, so that after a successful load no lookup reads the
\* cache file or fetches again; and a failed load leaves c.bootstrap unset,
\* so that the next lookup loads again.
C38_LoadedOnce ==
    /\ [](/\ Cardinality({w \in DOMAIN loc : Loading(w)}) <= 1
          /\ loads.ok <= 1
          /\ bootstrap # NoBootstrap <=> loads.ok = 1)
    /\ [][ /\ \A w \in DOMAIN loc :
                AtGetBootstrap(w) /\ loc'[w] # loc[w] =>
                    (Loading(w)' <=> bootstrap = NoBootstrap)
           /\ loads'.failed > loads.failed => bootstrap' = NoBootstrap /\ rdapMu' = 0
           /\ loads'.ok > loads.ok => bootstrap = NoBootstrap /\ bootstrap' # NoBootstrap ]_vars

\* Two workers; a load failed, a later lookup loaded again and succeeded.
C38_Witness ==
    /\ returned /\ Cardinality(DOMAIN loc) = 2
    /\ loads = [ok |-> 1, failed |-> 1]
    /\ bootstrap # NoBootstrap

\* Worker w's serverForTLD is about to look into c.tldToServer.
AtServerForTLD(w) == loc[w].pc = "whois" /\ lastLabel(loc[w].ascii) # <<>>

\* C39: for each TLD at most one query of whois.iana.org names a server,
\* whatever the interleaving of the lookups of domains of that TLD, and a
\* lookup that finds the TLD's server stored does not query whois.iana.org.
C39_DiscoveredOnce ==
    /\ [](\A t \in DOMAIN discoveries : discoveries[t] <= 1)
    /\ [][ \A w \in DOMAIN loc :
             AtServerForTLD(w) /\ TLDKey(w) \in DOMAIN tldToServer =>
                 loc'[w].pc # "whois_iana" ]_vars

\* ------------------------------------------------- cancellation of the ctx

\* Runs in which ctx can be cancelled; an RDAP server answers 404.
CancelWorld ==
    [http  |-> {HTTPResponse(404)},
     boot  |-> {HTTPResponse(200)},
     iana  |-> {IanaReply("whois.nic.example")},
     whois |-> {QueryReply(Body({}, {}, FALSE))},
     cancel |-> TRUE]

\* CheckDomains of "a.de", ..., "a.de" under a ctx that can be cancelled, with
\* RDAP alone and several workers, or with WHOIS alone; or, with no
\* CheckDomains running, two goroutines in Client.query for one server that
\* admits one at a time, paces and retries.
InitCancel ==
    \/ /\ \/ InitWith(Lists({<<"a", ".", "d", "e">>}, PoolMaxInputs),
                      [RDAP : {TRUE}, WHOIS : {FALSE}, NoWHOIS : {TRUE},
                       Concurrency : {NewChecker(c) : c \in 1..MaxWorkers}],
                      {CancelWorld})
          \/ InitWith({<<<<"a", ".", "d", "e">>>>},
                      [RDAP : {FALSE}, WHOIS : {TRUE}, NoWHOIS : {FALSE},
                       Concurrency : {NewChecker(1)}],
                      {CancelWorld})
       /\ NoCall /\ NoQuery /\ NoEnrich /\ NoPorkbun /\ NoRun
    \/ InitQueries([Timeout : {0}, MaxConcurrentPerServer : {1}, MinDelayPerServer : {500},
                    Retries : {1}, Backoff : {1500}],
                   {[errs |-> { <<>>, <<Error("i/o timeout", "net.timeout")>> },
                     cancel |-> TRUE]},
                   {[c \in 1..2 |-> NewCaller("whois.nic.example")]})

NextCancel ==
    \/ caller = <<>> /\ \E w \in DOMAIN loc : WorkerStep(w)
    \/ caller = <<>> /\ ProducerClose
    \/ caller = <<>> /\ ProducerWait
    \/ caller = <<>> /\ ProducerCloseResults
    \/ caller = <<>> /\ CollectorReturn
    \/ CheckCancel
    \/ \E c \in DOMAIN caller : Acquire(c)
    \/ \E c \in DOMAIN caller : AcquireCancelled(c)
    \/ \E c \in DOMAIN caller : Reserve(c)
    \/ \E c \in DOMAIN caller : PaceDone(c)
    \/ \E c \in DOMAIN caller : PaceCancelled(c)
    \/ \E c \in DOMAIN caller : Dial(c)
    \/ \E c \in DOMAIN caller : AttemptEnd(c)
    \/ \E c \in DOMAIN caller : BackoffDone(c)
    \/ \E c \in DOMAIN caller : BackoffCancelled(c)
    \/ Cancel
    \/ Tick

SpecCancel == InitCancel /\ [][NextCancel]_vars

\* checkOne had returned input i's Result when ctx was cancelled.
ProducedAtCancel(i) == atCancel.computed[i] # ZeroResult

\* CheckDomains returned after ctx was cancelled: one Result per input, the
\* one checkOne returned for it, and the Results checkOne had returned by the
\* cancellation unchanged.
KeptAtCancel ==
    returned /\ atCancel # <<>> =>
        /\ Len(outSlice) = Len(inputs)
        /\ \A i \in 1..Len(inputs) :
             /\ outSlice[i] = computed[i] /\ outSlice[i] # ZeroResult
             /\ ProducedAtCancel(i) => outSlice[i] = atCancel.computed[i]

\* Goroutine c of Client.query is not in an exchange with the server.
Waiting(c) == caller[c].pc \in {"acquire", "reserve", "pace", "dial", "backoff"}

\* Goroutine c sleeps (pacing or backoff) until after the time ctx was done.
SleepingPastDone(c) ==
    cancelAt # -1 /\ caller[c].pc \in {"pace", "backoff"} /\ caller[c].timer > cancelAt

\* Once ctx is done: no request is dispatched; a goroutine of Client.query
\* that is not in an exchange starts none and its query returns the
\* cancellation error; and a sleep that lasts past the cancellation ends
\* with that error.
AfterDone ==
    [][ cancelAt # -1 =>
          /\ sent' = sent
          /\ \A c \in DOMAIN caller :
               /\ Waiting(c) =>
                    /\ caller'[c].pc # "io"
                    /\ caller'[c].pc = "done" => caller'[c].err = <<Canceled>>
               /\ SleepingPastDone(c) /\ caller'[c] # caller[c] =>
                    caller'[c].pc = "done" /\ caller'[c].err = <<Canceled>> ]_vars

\* C33 as stated: after ctx is cancelled during CheckDomains the call returns
\* one Result per input, those produced before unchanged and every other one
\* unknown; pending sleeps and permit waits end with the cancellation error;
\* and no request is dispatched.
C33_Cancelled ==
    /\ [](KeptAtCancel)
    /\ [](returned /\ atCancel # <<>> =>
            \A i \in 1..Len(inputs) : ~ProducedAtCancel(i) => outSlice[i].Status = StatusUnknown)
    /\ AfterDone

\* C33: after ctx is cancelled during CheckDomains the call returns one Result
\* per input, those checkOne had returned before unchanged and those of the
\* inputs no worker had received before unknown; pending sleeps and permit
\* waits end with the cancellation error; and no request is dispatched.
C33_CancelledUnstarted ==
    /\ [](KeptAtCancel)
    /\ [](returned /\ atCancel # <<>> =>
            \A i \in 1..Len(inputs) : i > atCancel.started => outSlice[i].Status = StatusUnknown)
    /\ AfterDone

\* Two inputs: "a.de" was found available before ctx was cancelled, the worker
\* received the second "a.de" after it.
C33_Witness ==
    /\ returned /\ atCancel # <<>> /\ Len(inputs) = 2
    /\ atCancel.started = 1 /\ ProducedAtCancel(1)
    /\ outSlice[1].Status = StatusAvailable
    /\ inputs[2] = inputs[1]
    /\ outSlice[2].Status = StatusUnknown

\* ------------------------------------------------------- the command line

\* Command lines that differ in the command, the persistent flags and what
\* the command finds to check; --strict, --only and --sort left at their
\* defaults.
Dispatches ==
    [cmd : {"", "nope", "check", "search"}, version : BOOLEAN, aliases : {0, 2},
     reg : {"auto", "none", "porkbun", "bogus"}, keys : BOOLEAN,
     strict : {FALSE}, only : {""}, alias : BOOLEAN, sort : {""}, maxResults : {0},
     arg : {"none", "blank", "notlds", "ok"}, readErr : BOOLEAN, n : {0, 1}]

\* check and search command lines that reach CheckDomains with 1 to
\* MaxDomains domains, with and without --strict and a registrar, and with
\* valid and invalid values of --only and --sort.
Outputs ==
    [cmd : {"check", "search"}, version : {FALSE}, aliases : {0},
     reg : {"auto"}, keys : BOOLEAN,
     strict : BOOLEAN, only : {"", "unknown", "buyable", "nope"}, alias : {FALSE},
     sort : {"", "status", "length", "nope"}, maxResults : {0, 1},
     arg : {"ok"}, readErr : {FALSE}, n : 1..MaxDomains]

InitRun ==
    /\ NoCheck /\ NoQuery /\ NoCall /\ NoEnrich /\ NoPorkbun
    /\ cli \in {NewRun(inv) : inv \in Dispatches \cup Outputs}

SpecRun == InitRun /\ [][NextRun]_vars

\* The run of check or search has exited.
RunExited == cli # <<>> /\ cli.pc = "exited" /\ cli.inv.cmd \in {"check", "search"}

\* The places of a RunE of check or search.
RunPlaces == {"check", "search", "checkDomains", "enrich", "output"}

\* C32: a run of check or search whose root context an interrupt cancelled
\* while the command's RunE ran exits with code 130.
C32_Exit130 ==
    RunExited /\ cli.interrupted \in RunPlaces => cli.code = 130

\* Some checked Result is unknown or carries an error.
SomeUnknown == \E i \in DOMAIN cli.checked : cli.checked[i].Status = StatusUnknown \/ cli.checked[i].Error # ""

\* The run checked domains: CheckDomains and enrichWithRegistrar returned.
RunChecked == RunExited /\ cli.checked # <<>>

\* The RunE accepted the values of --only and --sort.
OutputAccepted ==
    /\ onlyErr(onlyVal(cli.inv, cli.registrar), cli.registrar) = NoError
    /\ sortVal(cli.inv) \in sortsOf(cli.inv.cmd)

\* C34 as stated: a --strict run with a checked Result that is unknown or has
\* an error exits 1, after the output was written; a run that wrote its
\* output without such a Result, or without --strict, exits 0.
C34_Strict ==
    RunChecked =>
        /\ cli.inv.strict /\ SomeUnknown => cli.code = 1 /\ cli.out # <<>>
        /\ ~(cli.inv.strict /\ SomeUnknown) /\ cli.out # <<>> => cli.code = 0

\* C34: a --strict run with a checked Result that is unknown or has an error,
\* whose --only and --sort values are accepted, exits 1, and it does so for
\* the strict failure only after the output was written (a failure to write
\* exits 1 as well); a run that wrote its output without such a Result, or
\* without --strict, exits 0.
C34_StrictAccepted ==
    RunChecked =>
        /\ cli.inv.strict /\ SomeUnknown /\ OutputAccepted =>
             /\ cli.code = 1
             /\ cli.err = CliError(1, "", FALSE) <=> cli.out # <<>>
        /\ ~(cli.inv.strict /\ SomeUnknown) /\ cli.out # <<>> => cli.code = 0

\* check --strict of two domains, one available and one unknown: both were
\* written, then the run exited 1.
C34_Witness ==
    /\ RunChecked /\ cli.inv.cmd = "check" /\ cli.inv.strict /\ cli.code = 1
    /\ Len(cli.checked) = 2
    /\ cli.checked[1].Status = StatusAvailable /\ cli.checked[2].Status = StatusUnknown
    /\ cli.out = <<cli.checked>>

\* C35: run returns 2 when the program is invoked with no arguments, when it
\* is invoked with an unknown command, and when check has no input domains.
C35_UsageExit ==
    cli # <<>> /\ cli.pc = "exited" /\ ~cli.inv.version =>
        /\ cli.inv.cmd \in {"", "nope"} => cli.code = 2
        /\ cli.inv.cmd = "check" /\ cli.inv.n = 0 /\ ~cli.inv.readErr => cli.code = 2

\* check without domains came to its RunE, which returned the usage error.
C35_Witness ==
    /\ cli # <<>> /\ cli.pc = "exited" /\ cli.inv.cmd = "check" /\ cli.inv.n = 0
    /\ cli.err = CliError(2, "", TRUE) /\ cli.code = 2 /\ cli.usage
    /\ cli.inv.reg = "auto" /\ cli.inv.aliases = 0

=========================================================================
